---- MODULE Spec2Model ----
(***************************************************************************)
(* Model of the Harvard Library MCP adapter (harvard_library_mcp).         *)
(*                                                                         *)
(* Part 1: RateLimiter (api/client.py), a token bucket guarded by an       *)
(* asyncio.Lock, driven by concurrent callers and a clock.                 *)
(*                                                                         *)
(* Time and tokens are fixed-point: one token is TokenUnit units, and one  *)
(* clock tick is the time in which one unit regenerates, that is           *)
(* 1 / (requests_per_second * TokenUnit) seconds.  So 1/requests_per_second*)
(* seconds is TokenUnit ticks, and `time_passed * requests_per_second`     *)
(* tokens is `now - last_update` units.                                    *)
(***************************************************************************)
EXTENDS Integers, Sequences, FiniteSets, TLC

\* ---------------------------------------------------------------- bounds
NumCallers == 2
Burst == 2
TokenUnit == 2
MaxCalls == 4
MaxTime == 3

Callers == 1..NumCallers

VARIABLES
    now,          \* the clock read by datetime.now()
    tokens,       \* RateLimiter.tokens, in units
    last_update,  \* RateLimiter.last_update
    locked,       \* asyncio.Lock: held
    waiters,      \* asyncio.Lock: FIFO queue of callers suspended in acquire
    pc,           \* per caller: "idle", "lockwait" (awaiting the lock), "sleep"
    wake_at,      \* per caller: earliest time asyncio.sleep may return
    slot,         \* per caller: index in log of the call in progress
    log,          \* history: one entry per call that entered the locked body
    op,           \* the client or tool call made last, with its inputs
    out,          \* what that call gave back
    call,         \* per caller: the search or get_record_by_id call in progress
    client,       \* search_tools._client: 0 for None, else the instance's number
    instances         \* number of HarvardLibraryClient instances constructed

rlvars == <<now, tokens, last_update, locked, waiters, pc, wake_at, slot, log>>
rqvars == <<call, client, instances>>

Min(a, b) == IF a < b THEN a ELSE b

\* ------------------------------------------------------------ RateLimiter
\* __init__: the bucket starts full.
InitTokens == Burst * TokenUnit

\* The top-up without the cap.
RefillUnbounded(tk, elapsed) == tk + elapsed

\* acquire, lines 38-44: top up by the elapsed time, saturating at burst_size.
Refill(tk, elapsed) == Min(Burst * TokenUnit, tk + elapsed)

\* acquire, line 49: wait_time = (1 - tokens) / requests_per_second, in ticks.
WaitTime(tk) == TokenUnit - tk

ConsumeNothing(tk) == tk
\* acquire, line 53: tokens -= 1.
Consume(tk) == tk - TokenUnit

LockKept == TRUE
\* `async with` exit (after line 51 or 53): the value of the lock's held flag
\* once the body has ended.
LockAfterExit == FALSE

\* acquire, lines 37-53 up to the first suspension point: runs with the lock
\* held and without yielding to the event loop.
Body(p) ==
    LET tk == Refill(tokens, now - last_update) IN
    /\ last_update' = now
    /\ slot' = [slot EXCEPT ![p] = Len(log) + 1]
    /\ IF tk < TokenUnit
       THEN /\ tokens' = tk
            /\ locked' = TRUE
            /\ pc' = [pc EXCEPT ![p] = "sleep"]
            /\ wake_at' = [wake_at EXCEPT ![p] = now + WaitTime(tk)]
            /\ log' = Append(log, [caller |-> p, enter |-> now,
                                   wait |-> WaitTime(tk), ret |-> -1])
       ELSE /\ tokens' = Consume(tk)
            /\ locked' = LockAfterExit
            /\ pc' = [pc EXCEPT ![p] = "idle"]
            /\ wake_at' = wake_at
            /\ log' = Append(log, [caller |-> p, enter |-> now,
                                   wait |-> 0, ret |-> now])

\* asyncio.Lock.acquire takes the lock at once only when it is free and no
\* earlier caller is queued for it.
LockAvailable == ~locked /\ waiters = <<>>

LockIgnored == TRUE
\* `async with self._lock` on entry to acquire (line 36).
CanEnter == LockAvailable

\* acquire() is invoked: it runs to its first suspension point.
Acquire(p) ==
    /\ pc[p] = "idle"
    /\ Len(log) + Len(waiters) < MaxCalls
    /\ IF CanEnter
       THEN Body(p) /\ waiters' = waiters
       ELSE /\ waiters' = Append(waiters, p)
            /\ pc' = [pc EXCEPT ![p] = "lockwait"]
            /\ UNCHANGED <<tokens, last_update, locked, wake_at, slot, log>>
    /\ now' = now

\* A caller invokes acquire().
Call(p) ==
    /\ Acquire(p)
    /\ UNCHANGED <<op, out, call, client, instances>>

\* The lock was released and the first queued caller is resumed with it.
Granted(p) ==
    /\ pc[p] = "lockwait"
    /\ ~locked
    /\ waiters # <<>>
    /\ Head(waiters) = p
    /\ waiters' = Tail(waiters)
    /\ Body(p)
    /\ now' = now

Resume(p) ==
    /\ Granted(p)
    /\ UNCHANGED <<op, out, call, client, instances>>

\* asyncio.sleep(wait_time) returns; lines 51 and the end of the with block.
Slept(p) ==
    /\ pc[p] = "sleep"
    /\ now >= wake_at[p]
    /\ tokens' = 0
    /\ locked' = LockAfterExit
    /\ pc' = [pc EXCEPT ![p] = "idle"]
    /\ log' = [log EXCEPT ![slot[p]].ret = now]
    /\ UNCHANGED <<now, last_update, waiters, wake_at, slot>>

Wake(p) ==
    /\ Slept(p)
    /\ UNCHANGED <<op, out, call, client, instances>>

\* The clock advances.  It is not stopped while a sleeper still needs it.
Tick ==
    /\ \/ now < MaxTime
       \/ \E p \in Callers : pc[p] = "sleep" /\ wake_at[p] > now
    /\ now' = now + 1
    /\ UNCHANGED <<tokens, last_update, locked, waiters, pc, wake_at, slot, log, op, out>>
    /\ UNCHANGED <<call, client, instances>>

RLInit ==
    /\ now = 0
    /\ tokens = InitTokens
    /\ last_update = 0
    /\ locked = FALSE
    /\ waiters = <<>>
    /\ pc = [p \in Callers |-> "idle"]
    /\ wake_at = [p \in Callers |-> 0]
    /\ slot = [p \in Callers |-> 0]
    /\ log = <<>>

RLNext ==
    \/ \E p \in Callers : Call(p)
    \/ \E p \in Callers : Resume(p)
    \/ \E p \in Callers : Wake(p)
    \/ Tick

\* =========================================================================
\* Part 2: decoded upstream data (JSON, or XML converted by xmltodict).
\*
\* A value is [t, v]: t is the Python type, v the content.  Text is a
\* sequence of one-character strings, so that prefixes, case and digits are
\* what they are in the program.  A dict is the sequence of its <<key, value>>
\* pairs in insertion order; keys are unique.  "repr" is the text str(x) of
\* a value x that is not text.  Exc stands for a raised exception.
Str(cs) == [t |-> "str", v |-> cs]
Num(n) == [t |-> "int", v |-> n]
Null == [t |-> "null", v |-> 0]
Dict(kvs) == [t |-> "dict", v |-> kvs]
List(xs) == [t |-> "list", v |-> xs]
Repr(x) == [t |-> "repr", v |-> x]
Exc == [t |-> "exc", v |-> 0]
EmptyStr == Str(<<>>)

IsStr(x) == x.t \in {"str", "repr"}
IsDict(x) == x.t = "dict"
IsList(x) == x.t = "list"
IsExc(x) == x.t = "exc"

\* Python truthiness.
Truthy(x) ==
    CASE x.t = "str" -> x.v # <<>>
      [] x.t = "repr" -> TRUE
      [] x.t = "int" -> x.v # 0
      [] x.t \in {"dict", "list"} -> Len(x.v) > 0
      [] OTHER -> FALSE

\* `k in d` and d[k] for a dict d.
HasKey(d, k) == \E i \in 1..Len(d.v) : d.v[i][1] = k
Lookup(d, k) == d.v[CHOOSE i \in 1..Len(d.v) : d.v[i][1] = k][2]
\* d.get(k, default)
GetOr(d, k, default) == IF HasKey(d, k) THEN Lookup(d, k) ELSE default

\* d[k] = x on an insertion-ordered dict given as a sequence of pairs.
Put(kvs, k, x) ==
    IF \E i \in 1..Len(kvs) : kvs[i][1] = k
    THEN [i \in 1..Len(kvs) |-> IF kvs[i][1] = k THEN <<k, x>> ELSE kvs[i]]
    ELSE Append(kvs, <<k, x>>)

\* str(x)
ToText(x) == IF IsStr(x) THEN x ELSE Repr(x)

IsSpace(c) == c \in {" ", "\n", "\t"}
RECURSIVE LStrip(_)
LStrip(cs) == IF cs # <<>> /\ IsSpace(Head(cs)) THEN LStrip(Tail(cs)) ELSE cs
RECURSIVE RStrip(_)
RStrip(cs) ==
    IF cs # <<>> /\ IsSpace(cs[Len(cs)]) THEN RStrip(SubSeq(cs, 1, Len(cs) - 1)) ELSE cs
\* s.strip(); raises AttributeError on anything but text.
Strip(x) ==
    CASE x.t = "str" -> Str(RStrip(LStrip(x.v)))
      [] x.t = "repr" -> x
      [] OTHER -> Exc

\* _extract_from_mods: the first of `keys` present in `data` decides; an empty
\* dict under a key passes on to the next key.
RECURSIVE ExtractFromMods(_, _, _)
ExtractFromMods(data, keys, default) ==
    IF keys = <<>> THEN default
    ELSE IF IsDict(data) /\ HasKey(data, Head(keys))
    THEN LET value == Lookup(data, Head(keys)) IN
         IF IsDict(value)
         THEN IF HasKey(value, "#text") THEN Lookup(value, "#text")
              ELSE IF Truthy(value) THEN value
              ELSE ExtractFromMods(data, Tail(keys), default)
         ELSE IF IsList(value) /\ Truthy(value)
         THEN LET first_item == value.v[1] IN
              IF IsDict(first_item) /\ HasKey(first_item, "#text")
              THEN Lookup(first_item, "#text")
              ELSE first_item
         ELSE value
    ELSE ExtractFromMods(data, Tail(keys), default)

\* _extract_text_content
RECURSIVE ExtractTextContent(_)
ExtractTextContent(data) ==
    IF IsStr(data) THEN data
    ELSE IF IsDict(data)
    THEN IF HasKey(data, "#text") THEN Lookup(data, "#text")
         ELSE IF HasKey(data, "text") THEN Lookup(data, "text")
         ELSE IF Truthy(data) THEN Repr(data)
         ELSE EmptyStr
    ELSE IF IsList(data) /\ Truthy(data) THEN ExtractTextContent(data.v[1])
    ELSE EmptyStr

\* _get_nested_value: follow `path` through nested dicts; None when it breaks.
RECURSIVE GetNestedValue(_, _)
GetNestedValue(data, path) ==
    IF path = <<>> THEN data
    ELSE IF IsDict(data) /\ HasKey(data, Head(path))
    THEN GetNestedValue(Lookup(data, Head(path)), Tail(path))
    ELSE Null

\* ---------------------------------------------------------- text helpers
LowerChars == <<"a", "b", "c", "d", "e", "f", "g", "h", "i", "j", "k", "l", "m",
                "n", "o", "p", "q", "r", "s", "t", "u", "v", "w", "x", "y", "z">>
UpperChars == <<"A", "B", "C", "D", "E", "F", "G", "H", "I", "J", "K", "L", "M",
                "N", "O", "P", "Q", "R", "S", "T", "U", "V", "W", "X", "Y", "Z">>
UpperChar(c) ==
    IF \E i \in 1..Len(LowerChars) : LowerChars[i] = c
    THEN UpperChars[CHOOSE i \in 1..Len(LowerChars) : LowerChars[i] = c]
    ELSE c
\* s.upper(); raises AttributeError on anything but text.
Upper(x) ==
    IF x.t = "str" THEN Str([i \in 1..Len(x.v) |-> UpperChar(x.v[i])])
    ELSE IF x.t = "repr" THEN x
    ELSE Exc

\* s.startswith(prefix) for text s.
StartsWith(cs, prefix) ==
    Len(cs) >= Len(prefix) /\ SubSeq(cs, 1, Len(prefix)) = prefix

\* The values a `for` loop visits: the items of a list, the characters of a
\* text (none of them a dict); iterating None or a number raises TypeError.
Iterable(x) == x.t \in {"list", "str", "repr", "dict"}
Items(x) ==
    CASE x.t = "list" -> x.v
      [] x.t = "str" -> [i \in 1..Len(x.v) |-> Str(<<x.v[i]>>)]
      [] x.t = "dict" -> [i \in 1..Len(x.v) |-> Str(<<x.v[i][1]>>)]
      [] OTHER -> <<>>

\* ------------------------------------------------- _parse_harvard_record
\* pydantic field checks of HarvardRecord: id: str, title: Optional[str],
\* authors: Optional[List[str]], identifiers: Dict[str, str].
ValidStr(x) == IsStr(x)
ValidOptStr(x) == IsStr(x) \/ x.t = "null"
ValidStrList(xs) == \A i \in 1..Len(xs) : IsStr(xs[i])
ValidStrDict(kvs) == \A i \in 1..Len(kvs) : IsStr(kvs[i][1]) /\ IsStr(kvs[i][2])

\* f"harvard-{hash(str(mods_data)) % 1000000}": "n" stands for the digits.
SynthesizedId == Str(<<"h", "a", "r", "v", "a", "r", "d", "-", "n">>)
UnknownId == Str(<<"u", "n", "k", "n", "o", "w", "n">>)

\* lines 474-479: the MODS block of a record, None when it has none.
ModsData(rd) ==
    IF HasKey(rd, "mods") THEN Lookup(rd, "mods")
    ELSE IF HasKey(rd, "titleInfo") \/ HasKey(rd, "name") \/ HasKey(rd, "originInfo")
    THEN rd
    ELSE Null

\* Python's `a or b`; `if not a: a = b` is the same choice.
PyOr(a, b) == IF Truthy(a) THEN a ELSE b

\* lines 483-498: the id of a MODS record.
ModsRecordId(mods) ==
    PyOr(ExtractTextContent(
             ExtractFromMods(mods, <<"recordInfo", "recordIdentifier">>, EmptyStr)),
         PyOr(ExtractTextContent(ExtractFromMods(mods, <<"identifier", "0">>, EmptyStr)),
              PyOr(ExtractTextContent(ExtractFromMods(mods, <<"id">>, EmptyStr)),
                   SynthesizedId)))

\* lines 501-507
ModsTitle(mods) ==
    LET title_info == ExtractFromMods(mods, <<"titleInfo">>, Dict(<<>>)) IN
    IF IsDict(title_info)
    THEN ExtractTextContent(ExtractFromMods(title_info, <<"title">>, EmptyStr))
    ELSE IF IsList(title_info) /\ Truthy(title_info)
    THEN ExtractTextContent(ExtractFromMods(title_info.v[1], <<"title">>, EmptyStr))
    ELSE EmptyStr

\* lines 518-524: the loop over name_info; acc is the authors list so far.
RECURSIVE AuthorsFrom(_, _)
AuthorsFrom(items, acc) ==
    IF items = <<>> THEN List(acc)
    ELSE LET name_item == Head(items)
             name_parts == ExtractFromMods(name_item, <<"namePart">>, List(<<>>))
             kept == IF IsList(name_parts)
                     THEN SelectSeq(name_parts.v, Truthy)
                     ELSE IF Truthy(name_parts) THEN <<name_parts>> ELSE <<>>
         IN IF IsDict(name_item)
            THEN AuthorsFrom(Tail(items),
                     acc \o [i \in 1..Len(kept) |-> ExtractTextContent(kept[i])])
            ELSE AuthorsFrom(Tail(items), acc)

\* lines 510-524: the list of authors, or Exc when the loop raises.
ModsAuthors(mods) ==
    LET found == ExtractFromMods(mods, <<"name", "nameInfo">>, List(<<>>))
        name_info == IF IsDict(found) THEN List(<<found>>)
                     ELSE IF Truthy(found) /\ ~IsList(found)
                     THEN List(<<Dict(<< <<"namePart", ToText(found)>> >>)>>)
                     ELSE found
    IN IF Iterable(name_info) THEN AuthorsFrom(Items(name_info), <<>>) ELSE Exc

\* lines 576-581: the loop over identifier_data; acc is the identifiers dict.
RECURSIVE IdentifiersFrom(_, _)
IdentifiersFrom(items, acc) ==
    IF items = <<>> THEN Dict(acc)
    ELSE LET id_item == Head(items) IN
         IF ~IsDict(id_item) THEN IdentifiersFrom(Tail(items), acc)
         ELSE LET id_type == Upper(GetOr(id_item, "@type", EmptyStr))
                  id_value == ExtractTextContent(id_item)
              IN IF IsExc(id_type) THEN Exc
                 ELSE IF Truthy(id_value)
                 THEN IdentifiersFrom(Tail(items), Put(acc, id_type, id_value))
                 ELSE IdentifiersFrom(Tail(items), acc)

\* lines 571-581: the identifiers dict (its keys are texts), or Exc.
ModsIdentifiers(mods) ==
    LET found == ExtractFromMods(mods, <<"identifier">>, List(<<>>))
        identifier_data == IF IsDict(found) THEN List(<<found>>) ELSE found
    IN IF Iterable(identifier_data)
       THEN IdentifiersFrom(Items(identifier_data), <<>>)
       ELSE Exc

\* A HarvardRecord: the fields the model follows.
MkRecord(id, title, authors, identifiers) ==
    [t |-> "record",
     v |-> [id |-> id, title |-> title, authors |-> authors, identifiers |-> identifiers]]

\* lines 669-675: the minimal record of the except branch.
MinimalRecord(rd) ==
    MkRecord(ToText(GetOr(rd, "id", UnknownId)), Null, Null, Dict(<<>>))

\* lines 481-612: the record of the MODS branch, or Exc when a step of it or
\* the HarvardRecord validation raises.  `authors if authors else None`.
ValidatedModsRecord(record_id, title, authors, identifiers) ==
    IF IsExc(authors) \/ IsExc(identifiers) THEN Exc
    ELSE IF /\ ValidStr(record_id)
            /\ ValidOptStr(title)
            /\ ValidStrList(authors.v)
            /\ ValidStrDict(identifiers.v)
    THEN MkRecord(record_id, title,
                  IF Truthy(authors) THEN authors ELSE Null, identifiers)
    ELSE Exc

ModsRecord(mods) ==
    ValidatedModsRecord(ModsRecordId(mods), ModsTitle(mods), ModsAuthors(mods),
                        ModsIdentifiers(mods))

\* lines 615-619
FlatRecordId(rd) ==
    PyOr(GetOr(rd, "id", Null),
         PyOr(GetOr(rd, "@id", Null), GetOr(rd, "recordId", EmptyStr)))

TitleFields == << <<"titleInfo", "title">>, <<"title">>, <<"Title">>,
                  <<"mods", "titleInfo", "title">> >>

\* _extract_title: the loop over title_fields from field i on.
RECURSIVE ExtractTitleFrom(_, _)
ExtractTitleFrom(data, i) ==
    IF i > Len(TitleFields) THEN Null
    ELSE LET value == GetNestedValue(data, TitleFields[i]) IN
         IF Truthy(value) /\ IsStr(value) THEN Strip(value)
         ELSE IF IsDict(value) /\ HasKey(value, "text") THEN Strip(Lookup(value, "text"))
         ELSE ExtractTitleFrom(data, i + 1)

ExtractTitle(data) == ExtractTitleFrom(data, 1)

KeyISBN == Str(<<"I", "S", "B", "N">>)
KeyISSN == Str(<<"I", "S", "S", "N">>)
KeyOCLC == Str(<<"O", "C", "L", "C">>)
KeyID == Str(<<"I", "D">>)

\* Every untyped identifier put in the generic bucket.
ClassifyGeneric(cs) == KeyID

\* _extract_identifiers, lines 966-973: the scheme of an untyped identifier.
ClassifyIdentifier(cs) ==
    IF StartsWith(cs, <<"9", "7", "8">>) \/ StartsWith(cs, <<"9", "7", "9">>) THEN KeyISBN
    ELSE IF StartsWith(cs, <<"9", "7", "7">>) THEN KeyISSN
    ELSE IF StartsWith(cs, <<"o", "c", "m">>) THEN KeyOCLC
    ELSE KeyID

GenericFields == <<"identifier", "id", "ID">>

\* _extract_identifiers, lines 960-973: the loop over generic_fields.
RECURSIVE GenericIdentifiers(_, _, _)
GenericIdentifiers(data, i, acc) ==
    IF i > Len(GenericFields) THEN Dict(acc)
    ELSE LET value == GetOr(data, GenericFields[i], Null) IN
         IF Truthy(value) /\ value.t = "str"
         THEN GenericIdentifiers(data, i + 1, Put(acc, ClassifyIdentifier(value.v), value))
         ELSE GenericIdentifiers(data, i + 1, acc)

\* _extract_identifiers.  Its typed lookups read the single key
\* "identifier[@type='isbn']" and the like, which no decoded record carries.
ExtractIdentifiers(data) == GenericIdentifiers(data, 1, <<>>)

\* lines 615-667: the record of the flat branch, or Exc.  The other
\* extractors read keys that the records of this model do not carry and
\* return None for them.
ValidatedFlatRecord(record_id, title, identifiers) ==
    IF IsExc(title) THEN Exc
    ELSE IF ValidStr(record_id) /\ ValidOptStr(title) /\ ValidStrDict(identifiers.v)
    THEN MkRecord(record_id, title, Null, identifiers)
    ELSE Exc

FlatRecord(rd) ==
    ValidatedFlatRecord(FlatRecordId(rd), ExtractTitle(rd), ExtractIdentifiers(rd))

\* lines 481-667: `if mods_data:` chooses the MODS or the flat branch.
BuiltRecord(mods_data, rd) ==
    IF Truthy(mods_data) THEN ModsRecord(mods_data) ELSE FlatRecord(rd)

\* lines 669-675: the except branch replaces a failed record.
OrMinimal(built, rd) == IF IsExc(built) THEN MinimalRecord(rd) ELSE built

\* _parse_harvard_record: the record returned, or Exc when the call raises.
\* Anything but a dict raises in the try block and again in the except
\* block, which calls record_data.get.
ParseHarvardRecord(rd) ==
    IF ~IsDict(rd) THEN Exc ELSE OrMinimal(BuiltRecord(ModsData(rd), rd), rd)

\* ------------------------------------------ _extract_records_from_response
Digits == <<"0", "1", "2", "3", "4", "5", "6", "7", "8", "9">>
IsDigit(c) == \E i \in 1..Len(Digits) : Digits[i] = c
DigitVal(c) == (CHOOSE i \in 1..Len(Digits) : Digits[i] = c) - 1

RECURSIVE Decimal(_)
Decimal(cs) == IF cs = <<>> THEN 0 ELSE 10 * Decimal(SubSeq(cs, 1, Len(cs) - 1)) + DigitVal(cs[Len(cs)])

\* int(x): a number is itself, a text of digits is its value, anything else
\* raises ValueError or TypeError.
IntOf(x) ==
    IF x.t = "int" THEN x
    ELSE IF x.t = "str" /\ x.v # <<>> /\ \A i \in 1..Len(x.v) : IsDigit(x.v[i])
    THEN Num(Decimal(x.v))
    ELSE Exc

\* `k in x`: defined on dicts, lists and texts, TypeError on None and numbers.
\* The lists and texts of this model do not contain the key names.
CanContain(x) == x.t \in {"dict", "list", "str", "repr"}
Contains(x, k) == IsDict(x) /\ HasKey(x, k)

\* Item keys that start with "mods" (key.startswith("mods"), line 220).
ModsPrefixedKeys == {"mods", "modsCollection"}

Wrap(m) == Dict(<< <<"mods", m>> >>)

\* An item taken as it is.
BareItem(item) == item

\* lines 233-239: an item of a list becomes a record with a mods entry.
WrapItem(item) ==
    IF IsDict(item) /\ HasKey(item, "mods") THEN Wrap(Lookup(item, "mods")) ELSE Wrap(item)

\* lines 219-228: the records under key number i and later of a keyed items map.
RECURSIVE KeyedRecords(_, _)
KeyedRecords(items_data, i) ==
    IF i > Len(items_data.v) THEN <<>>
    ELSE LET key == items_data.v[i][1]
             val == items_data.v[i][2]
             nested == IsDict(val) /\ HasKey(val, "mods")
             here == IF ~(key \in ModsPrefixedKeys \/ nested) THEN <<>>
                     ELSE IF nested THEN <<Wrap(Lookup(val, "mods"))>>
                     ELSE IF IsList(val) THEN [j \in 1..Len(val.v) |-> WrapItem(val.v[j])]
                     ELSE <<>>
         IN here \o KeyedRecords(items_data, i + 1)

\* lines 213-247: the records found by the Harvard-specific parsing.
HarvardRecords(response_data) ==
    LET items_data == Lookup(response_data, "items")
        found == IF IsDict(items_data) /\ HasKey(items_data, "mods")
                 THEN <<Wrap(Lookup(items_data, "mods"))>>
                 ELSE IF IsDict(items_data) THEN KeyedRecords(items_data, 1)
                 ELSE IF IsList(items_data)
                 THEN [j \in 1..Len(items_data.v) |-> WrapItem(items_data.v[j])]
                 ELSE <<>>
    IN IF found # <<>> \/ ~HasKey(response_data, "mods") THEN found
       ELSE IF IsList(Lookup(response_data, "mods"))
       THEN [j \in 1..Len(Lookup(response_data, "mods").v) |->
                Wrap(Lookup(response_data, "mods").v[j])]
       ELSE <<Wrap(Lookup(response_data, "mods"))>>

\* The local variables of _extract_records_from_response; exc tells that
\* the try block was left by an exception, which keeps what was assigned.
Extracted(records, total_count, exc) ==
    [records |-> records, total_count |-> total_count, exc |-> exc]

\* lines 204-247
HarvardStep(response_data) ==
    IF ~CanContain(response_data) THEN Extracted(<<>>, 0, TRUE)
    ELSE IF ~Contains(response_data, "items") THEN Extracted(<<>>, 0, FALSE)
    ELSE LET pagination == GetOr(response_data, "pagination", Dict(<<>>))
             found == IF Contains(pagination, "numFound")
                      THEN IntOf(Lookup(pagination, "numFound"))
                      ELSE Num(0)
         IN IF ~CanContain(pagination) \/ IsExc(found) THEN Extracted(<<>>, 0, TRUE)
            ELSE Extracted(HarvardRecords(response_data), found.v, FALSE)

\* lines 251-265: the generic JSON parsing, entered with no records found.
JsonFallback(st, response_data) ==
    IF ~IsDict(response_data) THEN Extracted(st.records, st.total_count, TRUE)
    ELSE LET items == GetOr(response_data, "items", Null)
             records == IF IsDict(items) /\ HasKey(items, "item")
                        THEN IF IsList(Lookup(items, "item")) THEN Lookup(items, "item").v
                             ELSE <<Lookup(items, "item")>>
                        ELSE IF IsList(items) THEN items.v
                        ELSE st.records
             pagination == GetOr(response_data, "pagination", Dict(<<>>))
             counted == IF Contains(pagination, "numFound")
                        THEN IntOf(Lookup(pagination, "numFound"))
                        ELSE IF Contains(pagination, "total")
                        THEN IntOf(Lookup(pagination, "total"))
                        ELSE Num(st.total_count)
         IN IF ~CanContain(pagination) \/ IsExc(counted)
            THEN Extracted(records, st.total_count, TRUE)
            ELSE Extracted(records, counted.v, FALSE)

CountKeys == <<"numFound", "total", "totalResults">>

\* lines 277-283: the first count key found under pagination or at top level.
RECURSIVE XmlCount(_, _, _)
XmlCount(response_data, i, default) ==
    IF i > Len(CountKeys) THEN Num(default)
    ELSE LET pagination == GetOr(response_data, "pagination", Dict(<<>>)) IN
         IF ~CanContain(pagination) THEN Exc
         ELSE IF Contains(pagination, CountKeys[i])
         THEN IntOf(Lookup(pagination, CountKeys[i]))
         ELSE IF HasKey(response_data, CountKeys[i])
         THEN IntOf(Lookup(response_data, CountKeys[i]))
         ELSE XmlCount(response_data, i + 1, default)

\* lines 267-283: the generic XML parsing, entered with no records found.
XmlFallback(st, response_data) ==
    IF ~IsDict(response_data) THEN Extracted(st.records, st.total_count, TRUE)
    ELSE LET items_data == GetOr(response_data, "items", Dict(<<>>))
             records == IF Contains(items_data, "item")
                        THEN IF IsList(Lookup(items_data, "item"))
                             THEN Lookup(items_data, "item").v
                             ELSE <<Lookup(items_data, "item")>>
                        ELSE st.records
             counted == XmlCount(response_data, 1, st.total_count)
         IN IF ~CanContain(items_data) THEN Extracted(st.records, st.total_count, TRUE)
            ELSE IF IsExc(counted) THEN Extracted(records, st.total_count, TRUE)
            ELSE Extracted(records, counted.v, FALSE)

\* lines 249-283: the generic parsing runs when no records were found.
GenericStep(st, response_data, format_type) ==
    IF st.exc \/ st.records # <<>> THEN st
    ELSE IF format_type = "json" THEN JsonFallback(st, response_data)
    ELSE IF format_type = "xml" THEN XmlFallback(st, response_data)
    ELSE st

\* _extract_records_from_response: (records, total_count); never raises.
ExtractRecordsFromResponse(response_data, format_type) ==
    GenericStep(HarvardStep(response_data), response_data, format_type)

\* --------------------------------------------- _compute_permalink_candidate
\* The decimal digits of a natural number.
RECURSIVE DigitsOf(_)
DigitsOf(n) ==
    IF n < 10 THEN <<Digits[n + 1]>> ELSE DigitsOf(n \div 10) \o <<Digits[(n % 10) + 1]>>

\* repr(x) as characters, for a value inside str(...).  The name of a dict
\* key is kept as one unit of the text: key names hold no digit.
RECURSIVE Serialize(_)
RECURSIVE SerializeItems(_, _)
SerializeItems(x, i) ==
    IF i > Len(x.v) THEN <<>>
    ELSE (IF i > 1 THEN <<",", " ">> ELSE <<>>)
         \o (IF IsDict(x) THEN <<"'", x.v[i][1], "'", ":", " ">> \o Serialize(x.v[i][2])
             ELSE Serialize(x.v[i]))
         \o SerializeItems(x, i + 1)

Serialize(x) ==
    CASE x.t = "str" -> <<"'">> \o x.v \o <<"'">>
      [] x.t = "repr" -> <<"'">> \o Serialize(x.v) \o <<"'">>
      [] x.t = "int" -> DigitsOf(x.v)
      [] x.t = "dict" -> <<"{">> \o SerializeItems(x, 1) \o <<"}">>
      [] x.t = "list" -> <<"[">> \o SerializeItems(x, 1) \o <<"]">>
      [] OTHER -> <<"N", "o", "n", "e">>

\* The characters of str(x).
Chars(x) == IF x.t = "str" THEN x.v ELSE IF x.t = "repr" THEN Serialize(x.v) ELSE Serialize(x)

\* The number of digits of cs from position j on.
RECURSIVE DigitRun(_, _)
DigitRun(cs, j) == IF j <= Len(cs) /\ IsDigit(cs[j]) THEN 1 + DigitRun(cs, j + 1) ELSE 0

MinMmsDigits == 8

\* re.compile(r"99\d{8,}") matches at position i of cs.
MatchesAt(cs, i) ==
    /\ i + 1 <= Len(cs)
    /\ cs[i] = "9"
    /\ cs[i + 1] = "9"
    /\ DigitRun(cs, i + 2) >= MinMmsDigits

\* The match from position i: "99" and every digit that follows.
MatchFrom(cs, i) == SubSeq(cs, i, i + 1 + DigitRun(cs, i + 2))

\* pattern.search(text).group(0), or <<>> for no match: the leftmost match.
PatternSearch(cs) ==
    IF \E i \in 1..Len(cs) : MatchesAt(cs, i)
    THEN MatchFrom(cs, CHOOSE i \in 1..Len(cs) :
                           MatchesAt(cs, i) /\ \A j \in 1..(i - 1) : ~MatchesAt(cs, j))
    ELSE <<>>

\* What a step leaves in mms: the match text (<<>> for none), or that the
\* step raised.
Mms(text, raised) == [text |-> text, raised |-> raised]

\* lines 696-702: the loop over identifiers.items() from entry i on.
RECURSIVE IdentifiersMms(_, _)
IdentifiersMms(identifiers, i) ==
    IF i > Len(identifiers.v) THEN <<>>
    ELSE IF Truthy(identifiers.v[i][2])
            /\ PatternSearch(Chars(ToText(identifiers.v[i][2]))) # <<>>
    THEN PatternSearch(Chars(ToText(identifiers.v[i][2])))
    ELSE IdentifiersMms(identifiers, i + 1)

\* lines 706-714: the candidates of record_info; the inner try swallows a
\* failing rec_info.get.
Candidates(rec_info) ==
    IF ~IsDict(rec_info) \/ ~HasKey(rec_info, "recordIdentifier") THEN <<>>
    ELSE IF IsList(Lookup(rec_info, "recordIdentifier"))
    THEN Lookup(rec_info, "recordIdentifier").v
    ELSE IF Lookup(rec_info, "recordIdentifier").t = "null" THEN <<>>
    ELSE <<Lookup(rec_info, "recordIdentifier")>>

\* lines 718-722: the text of a candidate.
CandidateVal(cand) ==
    IF IsDict(cand)
    THEN PyOr(GetOr(cand, "text", Null), PyOr(GetOr(cand, "#text", Null), Repr(cand)))
    ELSE ToText(cand)

\* lines 723-726: pattern.search(val) raises TypeError when val is no text.
SearchVal(val, rest) ==
    IF ~IsStr(val) THEN Mms(<<>>, TRUE)
    ELSE IF PatternSearch(Chars(val)) # <<>> THEN Mms(PatternSearch(Chars(val)), FALSE)
    ELSE rest

\* lines 716-726: the loop over candidates from candidate i on.
RECURSIVE CandidatesMms(_, _)
CandidatesMms(candidates, i) ==
    IF i > Len(candidates) THEN Mms(<<>>, FALSE)
    ELSE SearchVal(CandidateVal(candidates[i]), CandidatesMms(candidates, i + 1))

\* `if not mms and x:` then search str(x) (lines 729-738).
OrSearch(mms, x) ==
    IF mms.raised \/ mms.text # <<>> \/ ~Truthy(x) THEN mms
    ELSE Mms(PatternSearch(Chars(ToText(x))), FALSE)

\* lines 704-726: step 2 runs when nothing was found in the identifiers.
OrRecordInfo(text, record_info) ==
    IF text # <<>> \/ ~Truthy(record_info) THEN Mms(text, FALSE)
    ELSE CandidatesMms(Candidates(record_info), 1)

AlmaPrefix == <<"https://id.lib.harvard.edu/alma/">>
CatalogSuffix == <<"/catalog">>

\* lines 740-744: the permalink of mms; None when a step raised.
PermalinkOf(mms) ==
    IF mms.raised \/ mms.text = <<>> THEN Null
    ELSE Str(AlmaPrefix \o mms.text \o CatalogSuffix)

\* _compute_permalink_candidate(record_id, identifiers, mods_metadata,
\* record_data); record_info is mods_metadata.record_info, None without
\* mods_metadata.
ComputePermalinkCandidate(record_id, identifiers, record_info, record_data) ==
    PermalinkOf(
        OrSearch(
            OrSearch(
                OrRecordInfo(IF Truthy(identifiers) THEN IdentifiersMms(identifiers, 1)
                             ELSE <<>>,
                             record_info),
                record_id),
            record_data))

\* ---------------------------------------------------------------- _build_url
\* A URL is text whose first element is the scheme and host as one unit; the
\* characters of the path follow it.
FirstIndex(cs, c) ==
    IF \E i \in 1..Len(cs) : cs[i] = c
    THEN CHOOSE i \in 1..Len(cs) : cs[i] = c /\ \A j \in 1..(i - 1) : cs[j] # c
    ELSE 0

\* cs.split(sep)
RECURSIVE Split(_, _)
Split(cs, sep) ==
    IF FirstIndex(cs, sep) = 0 THEN <<cs>>
    ELSE <<SubSeq(cs, 1, FirstIndex(cs, sep) - 1)>>
         \o Split(SubSeq(cs, FirstIndex(cs, sep) + 1, Len(cs)), sep)

\* sep.join(parts)
RECURSIVE Join(_, _)
Join(parts, sep) ==
    IF parts = <<>> THEN <<>>
    ELSE IF Len(parts) = 1 THEN parts[1]
    ELSE parts[1] \o <<sep>> \o Join(Tail(parts), sep)

\* endpoint.lstrip('/')
RECURSIVE LStripSlash(_)
LStripSlash(cs) ==
    IF cs # <<>> /\ Head(cs) = "/" THEN LStripSlash(Tail(cs)) ELSE cs

\* urljoin: the segments of the base path without its last one, then those
\* of the reference, empty segments in the middle dropped.
MergedSegments(base_parts, path) ==
    LET segments == IF path # <<>> /\ Head(path) = "/" THEN Split(path, "/")
                    ELSE (IF base_parts[Len(base_parts)] # <<>>
                          THEN SubSeq(base_parts, 1, Len(base_parts) - 1)
                          ELSE base_parts) \o Split(path, "/")
    IN  <<Head(segments)>>
        \o SelectSeq(SubSeq(segments, 2, Len(segments) - 1), LAMBDA s : s # <<>>)
        \o (IF Len(segments) > 1 THEN <<segments[Len(segments)]>> ELSE <<>>)

\* urljoin: "." and ".." segments resolved.
RECURSIVE Resolved(_, _, _)
Resolved(segments, i, acc) ==
    IF i > Len(segments)
    THEN IF segments[Len(segments)] \in {<<".">>, <<".", ".">>} THEN Append(acc, <<>>) ELSE acc
    ELSE IF segments[i] = <<".", ".">>
         THEN Resolved(segments, i + 1, IF acc = <<>> THEN acc ELSE SubSeq(acc, 1, Len(acc) - 1))
    ELSE IF segments[i] = <<".">> THEN Resolved(segments, i + 1, acc)
    ELSE Resolved(segments, i + 1, Append(acc, segments[i]))

\* urljoin(base, url) for a reference without scheme, host, query or fragment.
UrlJoin(base, url) ==
    IF url = <<>> THEN base
    ELSE LET path == Join(Resolved(MergedSegments(Split(Tail(base), "/"), url), 1, <<>>), "/")
         IN  <<Head(base)>> \o (IF path = <<>> THEN <<"/">> ELSE path)

\* quote_plus of one character: letters, digits and "_.-~" are kept.
QuoteChar(c) ==
    CASE c = " " -> <<"+">>
      [] c = "&" -> <<"%", "2", "6">>
      [] c = "=" -> <<"%", "3", "D">>
      [] c = "/" -> <<"%", "2", "F">>
      [] c = "?" -> <<"%", "3", "F">>
      [] c = "+" -> <<"%", "2", "B">>
      [] c = "%" -> <<"%", "2", "5">>
      [] OTHER -> <<c>>

RECURSIVE QuotePlus(_)
QuotePlus(cs) == IF cs = <<>> THEN <<>> ELSE QuoteChar(Head(cs)) \o QuotePlus(Tail(cs))

\* urlencode(filtered_params); the name of a parameter is one unit of text.
RECURSIVE UrlEncode(_)
UrlEncode(kvs) ==
    IF kvs = <<>> THEN <<>>
    ELSE <<kvs[1][1], "=">> \o QuotePlus(Chars(kvs[1][2]))
         \o (IF Len(kvs) > 1 THEN <<"&">> \o UrlEncode(Tail(kvs)) ELSE <<>>)

\* A variant that keeps the parameters whose value is None.
AllParams(params) == params.v

FilteredParams(params) == SelectSeq(params.v, LAMBDA kv : kv[2].t # "null")

WithQuery(url, filtered_params) ==
    IF filtered_params = <<>> THEN url
    ELSE url \o <<"?">> \o UrlEncode(filtered_params)

BuildUrl(base_url, endpoint, params) ==
    LET url == UrlJoin(IF base_url[Len(base_url)] = "/" THEN base_url
                       ELSE base_url \o <<"/">>,
                       LStripSlash(endpoint))
    IN  Str(IF Truthy(params) THEN WithQuery(url, FilteredParams(params)) ELSE url)

\* ------------------------------------------------- the upstream exchange
\* What one HTTP exchange gives: kind "ok" with a status and a body, or
\* "neterr" (httpx.RequestError).  decodable tells whether the body text is
\* valid JSON / well-formed XML; body is what it decodes to.
Response(kind, status, decodable, body) ==
    [kind |-> kind, status |-> status, decodable |-> decodable, body |-> body]

\* response.raise_for_status() (line 157)
IsSuccess(status) == 200 <= status /\ status < 300

\* _make_request, lines 150-168: "response", or the exception re-raised.
MakeRequest(resp) ==
    IF resp.kind = "neterr" THEN "RequestError"
    ELSE IF ~IsSuccess(resp.status) THEN "HTTPStatusError"
    ELSE "response"

XmlErrorText == Str(<<"X", "M", "L", " ", "p", "a", "r", "s", "i", "n", "g", " ",
                      "f", "a", "i", "l", "e", "d">>)

\* The conversion failure passed on to the caller.
XmlErrorRaised(resp) == IF resp.decodable THEN resp.body ELSE Exc

\* _parse_xml_response: xmltodict's map, or the error marker with the raw text.
ParseXmlResponse(resp) ==
    IF resp.decodable THEN resp.body
    ELSE Dict(<< <<"error", XmlErrorText>>, <<"raw_content", resp.body>> >>)

\* What a client or tool call gives back: kind "raised", or a value.
Raised == [kind |-> "raised", val |-> Null]
Gives(kind, val) == [kind |-> kind, val |-> val]

\* search, lines 398-404: records.append(record), or continue.
Appended(record) == IF IsExc(record) THEN <<>> ELSE <<record>>

UntilFailure(record, rest) == IF IsExc(record) THEN <<>> ELSE <<record>> \o rest

RECURSIVE ParseUntilFailure(_)
ParseUntilFailure(records_data) ==
    IF records_data = <<>> THEN <<>>
    ELSE UntilFailure(ParseHarvardRecord(Head(records_data)),
                      ParseUntilFailure(Tail(records_data)))

\* search, lines 397-404: a record whose normalization raises is skipped.
RECURSIVE ParseAll(_)
ParseAll(records_data) ==
    IF records_data = <<>> THEN <<>>
    ELSE Appended(ParseHarvardRecord(Head(records_data))) \o ParseAll(Tail(records_data))

HasMoreInclusive(limit, offset, total_count) == (offset + limit) <= total_count

\* search, line 411
HasMore(limit, offset, total_count) == (offset + limit) < total_count

\* HarvardSearchResult(...): raw_response is Optional[Dict[str, Any]].
ValidRawResponse(x) == IsDict(x) \/ x.t = "null"

\* search, lines 381-417.
\* lines 384-387: the decoded body.
ResponseData(response_format, resp) ==
    IF response_format = "xml" THEN ParseXmlResponse(resp) ELSE resp.body

\* lines 391-413: the result built from what the extraction gave.
SearchResult(limit, offset, response_data, ex) ==
    IF ~ValidRawResponse(response_data) THEN Raised
    ELSE Gives("result",
             [records |-> ParseAll(ex.records),
              total_count |-> ex.total_count,
              limit |-> limit,
              offset |-> offset,
              has_more |-> HasMore(limit, offset, ex.total_count)])

\* The date filter taken from the end date whenever one is given.
EndDateFirst(params, start_date, end_date) ==
    IF Truthy(end_date) THEN Put(params, "dateIssued", end_date)
    ELSE IF Truthy(start_date) THEN Put(params, "dateIssued", start_date)
    ELSE params

\* search, lines 359-366: the single date filter of the upstream request.
DateFilter(params, start_date, end_date) ==
    IF Truthy(start_date) /\ Truthy(end_date) THEN Put(params, "dateIssued", start_date)
    ELSE IF Truthy(start_date) THEN Put(params, "dateIssued", start_date)
    ELSE IF Truthy(end_date) THEN Put(params, "dateIssued", end_date)
    ELSE params

\* search, lines 333-372: the query parameters of a call that passes no text
\* filter and no sort field.
SearchParams(limit, offset, start_date, end_date) ==
    Dict(DateFilter(<< <<"limit", Num(limit)>>, <<"start", Num(offset)>> >>,
                    start_date, end_date))

TextItems == <<"i", "t", "e", "m", "s">>

\* search, lines 374-379
SearchEndpoint(response_format) ==
    IF response_format = "xml" THEN TextItems \o <<".", "x", "m", "l">>
    ELSE TextItems \o <<".", "j", "s", "o", "n">>

\* search, line 382: what _make_request is called with.
SearchRequest(limit, offset, response_format, start_date, end_date) ==
    [method |-> "GET", endpoint |-> SearchEndpoint(response_format),
     params |-> SearchParams(limit, offset, start_date, end_date)]

\* A call's outcome together with the request it made.
WithRequest(request, result) ==
    [kind |-> result.kind, val |-> result.val, request |-> request]

Search(limit, offset, response_format, resp) ==
    IF MakeRequest(resp) # "response" THEN Raised
    ELSE IF response_format # "xml" /\ ~resp.decodable THEN Raised
    ELSE SearchResult(limit, offset, ResponseData(response_format, resp),
             ExtractRecordsFromResponse(ResponseData(response_format, resp),
                                        response_format))

NotFound == 404

NeverNotFound(status) == FALSE

\* get_record_by_id, lines 457-461: the status the not-found branch takes.
IsNotFound(status) == status = NotFound

RecordOrRaise(record) == IF IsExc(record) THEN Raised ELSE Gives("record", record)

\* get_record_by_id, lines 449-455: the record of a decoded body.
RecordFrom(response_data) ==
    LET items == IF Contains(response_data, "items")
                 THEN Lookup(response_data, "items") ELSE Dict(<<>>)
        item == IF Contains(items, "item") THEN Lookup(items, "item") ELSE response_data
        record_data == IF IsList(item) /\ Truthy(item) /\ Contains(items, "item")
                       THEN item.v[1] ELSE item
    IN IF ~CanContain(response_data) \/ ~CanContain(items) THEN Raised
       ELSE RecordOrRaise(ParseHarvardRecord(record_data))

\* get_record_by_id, lines 440-464.
GetRecordById(response_format, resp) ==
    IF MakeRequest(resp) = "HTTPStatusError"
    THEN IF IsNotFound(resp.status) THEN Gives("none", Null) ELSE Raised
    ELSE IF MakeRequest(resp) # "response" THEN Raised
    ELSE IF response_format # "xml" /\ ~resp.decodable THEN Raised
    ELSE RecordFrom(ResponseData(response_format, resp))

\* --------------------------------------------------- ModsMetadata.from_xml
\* An XML element: its local tag name and namespace URI ("" for none), its
\* attributes as <<name, text>> pairs, its text (the characters before the
\* first child) and its child elements.  A document is its root element and
\* whether the text is well-formed; `source` identifies the input text.
Element(tag, ns, attrib, text, children) ==
    [tag |-> tag, ns |-> ns, attrib |-> attrib, text |-> text, children |-> children]
Document(source, wellformed, root) ==
    [source |-> source, wellformed |-> wellformed, root |-> root]

ModsNamespace == "http://www.loc.gov/mods/v3"

\* ElementTree's element.tag: "{uri}local" for a namespaced element.
QualifiedTag(el) == IF el.ns = "" THEN el.tag ELSE "{" \o el.ns \o "}" \o el.tag

RECURSIVE Descendants(_)
RECURSIVE DescendantsOfAll(_)
\* The elements below el in document order ('.//' of findall).
Descendants(el) == DescendantsOfAll(el.children)
DescendantsOfAll(els) ==
    IF els = <<>> THEN <<>>
    ELSE <<Head(els)>> \o Descendants(Head(els)) \o DescendantsOfAll(Tail(els))

\* root.findall('.//mods:<tag>', namespaces), line 134.
RECURSIVE FindAllIn(_, _)
FindAllIn(els, tag) ==
    IF els = <<>> THEN <<>>
    ELSE (IF Head(els).ns = ModsNamespace /\ Head(els).tag = tag THEN <<Head(els)>> ELSE <<>>)
         \o FindAllIn(Tail(els), tag)
FindAll(root, tag) == FindAllIn(Descendants(root), tag)

RECURSIVE ElementToDict(_)
RECURSIVE AddChildren(_, _)
\* element_to_dict, lines 143-165.
ElementToDict(element) ==
    LET with_attrib == [i \in 1..Len(element.attrib) |->
                           <<element.attrib[i][1], Str(element.attrib[i][2])>>]
        stripped == RStrip(LStrip(element.text))
        with_text == IF stripped # <<>> THEN Put(with_attrib, "text", Str(stripped))
                     ELSE with_attrib
    IN Dict(AddChildren(element.children, with_text))
\* lines 156-163: a repeated child tag is folded into a list.
AddChildren(children, result) ==
    IF children = <<>> THEN result
    ELSE LET child == Head(children)
             key == QualifiedTag(child)
             child_data == ElementToDict(child)
             old == Lookup(Dict(result), key)
             next == IF ~HasKey(Dict(result), key) THEN Put(result, key, child_data)
                     ELSE IF IsList(old) THEN Put(result, key, List(Append(old.v, child_data)))
                     ELSE Put(result, key, List(<<old, child_data>>))
         IN AddChildren(Tail(children), next)

\* extract_field, lines 132-141.
OneOrMany(elements) ==
    IF elements = <<>> THEN Null
    ELSE IF Len(elements) = 1 THEN ElementToDict(elements[1])
    ELSE List([i \in 1..Len(elements) |-> ElementToDict(elements[i])])

ExtractField(root, tag) == OneOrMany(FindAll(root, tag))

\* pydantic field checks of ModsMetadata (lines 67-110):
\* Optional[Dict[str, Any]] and Optional[List[Dict[str, Any]]].
ValidOptDict(x) == x.t = "null" \/ IsDict(x)
ValidOptDictList(x) ==
    x.t = "null" \/ (IsList(x) /\ \A i \in 1..Len(x.v) : IsDict(x.v[i]))

UnclearedMetadata(doc) ==
    [title_info |-> Dict(<<>>), name_info |-> Null, origin_info |-> Null, language |-> Null,
     physical_description |-> Null, subjects |-> Null, classification |-> Null,
     related_items |-> Null, identifiers |-> Null, locations |-> Null,
     record_info |-> Null, raw_xml |-> doc.source]

\* cls(raw_xml=xml_content), line 184.
MinimalMetadata(doc) ==
    [title_info |-> Null, name_info |-> Null, origin_info |-> Null, language |-> Null,
     physical_description |-> Null, subjects |-> Null, classification |-> Null,
     related_items |-> Null, identifiers |-> Null, locations |-> Null,
     record_info |-> Null, raw_xml |-> doc.source]

\* lines 167-180: the arguments handed to the constructor.
ExtractedMetadata(doc) ==
    [title_info |-> ExtractField(doc.root, "titleInfo"),
     name_info |-> ExtractField(doc.root, "name"),
     origin_info |-> ExtractField(doc.root, "originInfo"),
     language |-> ExtractField(doc.root, "language"),
     physical_description |-> ExtractField(doc.root, "physicalDescription"),
     subjects |-> ExtractField(doc.root, "subject"),
     classification |-> ExtractField(doc.root, "classification"),
     related_items |-> ExtractField(doc.root, "relatedItem"),
     identifiers |-> ExtractField(doc.root, "identifier"),
     locations |-> ExtractField(doc.root, "location"),
     record_info |-> ExtractField(doc.root, "recordInfo"),
     raw_xml |-> doc.source]

\* The constructor accepts the arguments when every field has its declared type.
ValidMetadata(m) ==
    /\ ValidOptDict(m.title_info)
    /\ ValidOptDictList(m.name_info)
    /\ ValidOptDict(m.origin_info)
    /\ ValidOptDict(m.language)
    /\ ValidOptDict(m.physical_description)
    /\ ValidOptDictList(m.subjects)
    /\ ValidOptDictList(m.classification)
    /\ ValidOptDictList(m.related_items)
    /\ ValidOptDictList(m.identifiers)
    /\ ValidOptDictList(m.locations)
    /\ ValidOptDict(m.record_info)

\* ModsMetadata.from_xml, lines 120-184: a parse error or a rejected
\* constructor call ends in the except branch.
Constructed(m, doc) ==
    IF doc.wellformed /\ ValidMetadata(m) THEN m ELSE MinimalMetadata(doc)

FromXml(doc) == Constructed(ExtractedMetadata(doc), doc)

\* ------------------------------------------------------------- ToolLayer
\* record.model_dump() keeps the fields of a record.
ModelDump(record) == record.v

\* The except branch of the search tools: lines 72-79 and the like.
SearchFailure(message) ==
    [success |-> FALSE, error |-> message, records |-> <<>>, total_count |-> 0]

\* The success envelope of the search tools: lines 62-70 and the like.
SearchSuccess(result) ==
    [success |-> TRUE,
     records |-> [i \in 1..Len(result.records) |-> ModelDump(result.records[i])],
     total_count |-> result.total_count,
     limit |-> result.limit,
     offset |-> result.offset,
     has_more |-> result.has_more]

SearchUncaught(res) ==
    IF res.kind = "raised" THEN Raised ELSE Gives("envelope", SearchSuccess(res.val))

\* try/except of the search tools around `await client.search(...)`.
SearchEnvelope(res) ==
    IF res.kind = "raised" THEN Gives("envelope", SearchFailure("str(e)"))
    ELSE Gives("envelope", SearchSuccess(res.val))

\* search_catalog, search_by_title, search_by_author, search_by_subject,
\* search_by_collection, search_by_date_range, search_by_geographic_origin
\* and advanced_search: each awaits client.search inside try and differs
\* from the others in the filters it passes and the context keys it adds.
SearchTool(limit, offset, response_format, resp) ==
    SearchEnvelope(Search(limit, offset, response_format, resp))

SearchTools == {"search_catalog", "search_by_title", "search_by_author",
                "search_by_subject", "search_by_collection", "search_by_date_range",
                "search_by_geographic_origin", "advanced_search"}

\* get_record_details, lines 501-523.
RecordEnvelope(res) ==
    IF res.kind = "raised"
    THEN Gives("envelope", [success |-> FALSE, error |-> "str(e)", record |-> Null])
    ELSE IF res.kind = "none"
    THEN Gives("envelope", [success |-> FALSE, error |-> "Record not found", record |-> Null])
    ELSE Gives("envelope", [success |-> TRUE, record |-> ModelDump(res.val)])

GetRecordDetails(response_format, resp) ==
    RecordEnvelope(GetRecordById(response_format, resp))

\* The number of entries of known_collections, lines 539-565.
KnownCollections == 5

\* get_collections_list, lines 537-571.
GetCollectionsList ==
    Gives("envelope", [success |-> TRUE, collections |-> KnownCollections])

\* parse_mods_metadata, lines 617-621: the simplified title.
SimplifiedTitle(mods_metadata) ==
    LET title_info == mods_metadata.title_info
        title == GetOr(title_info, "title", Null)
    IN IF Truthy(title_info) /\ IsDict(title_info) /\ Truthy(title)
       THEN IF IsDict(title) THEN GetOr(title, "text", title) ELSE ToText(title)
       ELSE Null

\* parse_mods_metadata, lines 594-696.
Simplified(mods_metadata) ==
    Gives("envelope",
        [success |-> TRUE,
         parsed_metadata |-> [title |-> SimplifiedTitle(mods_metadata)],
         full_metadata |-> mods_metadata])

ParseModsMetadata(doc) == Simplified(FromXml(doc))

\* ------------------------------------------------- the MCP server module
\* The names listed by handle_list_tools.
AdvertisedTools ==
    <<"search_catalog", "search_by_title", "search_by_author", "search_by_subject",
      "search_by_collection", "search_by_date_range", "search_by_geographic_origin",
      "advanced_search", "get_record_details", "get_collections_list",
      "parse_mods_metadata", "parse_permalink">>

\* The names server.py imports from tools.search_tools.
ImportedTools ==
    SearchTools \cup {"get_collections_list", "get_record_details", "parse_permalink",
                      "parse_mods_metadata"}

\* The names the if/elif chain of handle_call_tool compares with.
RoutedTools ==
    SearchTools \cup {"get_record_details", "get_collections_list", "parse_mods_metadata",
                      "parse_permalink"}

\* The functions the module tools.search_tools defines.
ToolLayerFunctions ==
    {"get_client"} \cup SearchTools
    \cup {"get_record_details", "get_collections_list", "parse_mods_metadata"}

\* `from .tools.search_tools import (...)` raises ImportError for a name the
\* module does not define, and the server module is then never loaded.
ServerLoads == ImportedTools \subseteq ToolLayerFunctions

\* What the ToolLayer function of that name gives.
ToolOutcome(tool, limit, offset, response_format, resp, doc) ==
    CASE tool \in SearchTools -> SearchTool(limit, offset, response_format, resp)
      [] tool = "get_record_details" -> GetRecordDetails(response_format, resp)
      [] tool = "get_collections_list" -> GetCollectionsList
      [] tool = "parse_mods_metadata" -> ParseModsMetadata(doc)
      [] OTHER -> Raised

\* handle_call_tool: the text of the routed function's result, of the
\* 'Unknown tool' result, or of the error result of the except branch.
TextContent(function, result) == Gives("text", [function |-> function, result |-> result])

HandleCallTool(name, outcome) ==
    IF name \notin RoutedTools
    THEN TextContent("none", [success |-> FALSE, error |-> "Unknown tool"])
    ELSE IF outcome.kind = "raised"
    THEN TextContent(name, [success |-> FALSE, error |-> "Error calling tool"])
    ELSE TextContent(name, outcome.val)

\* A tool call sent to the server process.
CallTool(name, outcome) ==
    IF ServerLoads THEN HandleCallTool(name, outcome) ELSE Gives("import_error", Null)

\* ------------------------------------------------------- the HTTP mirror
\* The routes of http_server.py that call the ToolLayer.
Routes ==
    <<[method |-> "POST", path |-> "/search", tool |-> "search_catalog"],
      [method |-> "POST", path |-> "/search/title", tool |-> "search_by_title"],
      [method |-> "POST", path |-> "/search/author", tool |-> "search_by_author"],
      [method |-> "POST", path |-> "/search/subject", tool |-> "search_by_subject"],
      [method |-> "POST", path |-> "/search/collection", tool |-> "search_by_collection"],
      [method |-> "POST", path |-> "/search/date-range", tool |-> "search_by_date_range"],
      [method |-> "POST", path |-> "/search/geographic", tool |-> "search_by_geographic_origin"],
      [method |-> "POST", path |-> "/search/advanced", tool |-> "advanced_search"],
      [method |-> "GET", path |-> "/record/{record_id}", tool |-> "get_record_details"],
      [method |-> "GET", path |-> "/collections", tool |-> "get_collections_list"],
      [method |-> "POST", path |-> "/parse/mods", tool |-> "parse_mods_metadata"],
      [method |-> "GET", path |-> "/search", tool |-> "search_catalog"],
      [method |-> "GET", path |-> "/search/author", tool |-> "search_by_author"],
      [method |-> "GET", path |-> "/search/title", tool |-> "search_by_title"]>>

HttpOk == 200
HttpError == 500

\* A variant that answers a success = false envelope with the error status.
FailureAsError(outcome) ==
    IF outcome.kind = "raised" \/ ~outcome.val.success
    THEN Gives("http", [status |-> HttpError, detail |-> "str(e)"])
    ELSE Gives("http", [status |-> HttpOk, content |-> outcome.val])

\* try: return JSONResponse(content=result)
\* except Exception as e: raise HTTPException(status_code=500, detail=str(e))
RouteResponse(outcome) ==
    IF outcome.kind = "raised"
    THEN Gives("http", [status |-> HttpError, detail |-> "str(e)"])
    ELSE Gives("http", [status |-> HttpOk, content |-> outcome.val])

\* ------------------------------------------------------- bounded inputs
MaxLimit == 2
MaxOffset == 1
MaxFound == 3
MaxRepeat == 2

TextT1 == Str(<<"T", "1">>)
TextIsbn == Str(<<"9", "7", "8", "1", "2", "3", "4", "5", "6", "7", "8", "9", "0">>)
TextAlma == Str(<<"9", "9", "1", "2", "3", "4", "5", "6", "7", "8">>)
TextOcm == Str(<<"o", "c", "m", "1">>)
TextRec == Str(<<"r", "1">>)
TextAbc == Str(<<"a", "b", "c">>)
TextIsbnType == Str(<<"i", "s", "b", "n">>)
TextOclcType == Str(<<"o", "c", "l", "c">>)
TitleInfoT1 == Dict(<< <<"title", TextT1>> >>)

\* MODS blocks, as xmltodict and the JSON API give them.
ModsBlocks == <<
    Dict(<< <<"titleInfo", TitleInfoT1>>,
            <<"recordInfo", Dict(<< <<"recordIdentifier", TextAlma>> >>)>>,
            <<"identifier", Dict(<< <<"@type", TextIsbnType>>, <<"#text", TextIsbn>> >>)>> >>),
    Dict(<< <<"titleInfo", TitleInfoT1>> >>),
    Dict(<< <<"titleInfo", Dict(<< <<"title", Dict(<< <<"#text", TextT1>> >>)>> >>)>>,
            <<"identifier", List(<< Dict(<< <<"@type", TextIsbnType>>, <<"text", TextIsbn>> >>),
                                    Dict(<< <<"@type", TextOclcType>>, <<"#text", TextOcm>> >>) >>)>> >>),
    Dict(<< <<"name", Dict(<< <<"namePart", TextAbc>> >>)>>, <<"id", TextRec>> >>),
    Dict(<< <<"titleInfo", TitleInfoT1>>, <<"identifier", Null>> >>),
    Dict(<< <<"titleInfo", TitleInfoT1>>, <<"identifier", TextIsbn>> >>),
    Dict(<< <<"titleInfo", Dict(<< <<"title", Num(5)>> >>)>>, <<"id", TextRec>> >>),
    Dict(<< <<"titleInfo", TitleInfoT1>>,
            <<"identifier", Dict(<< <<"@type", TextIsbnType>>, <<"text", TextIsbn>> >>)>> >>),
    Dict(<< <<"name", List(<< Dict(<< <<"namePart", TextAbc>> >>),
                              Dict(<< <<"namePart", TextT1>> >>) >>)>>,
            <<"id", TextRec>> >>),
    Dict(<< <<"nameInfo", Dict(<< <<"namePart", List(<< TextAbc, TextAbc >>)>> >>)>>,
            <<"titleInfo", TitleInfoT1>>, <<"id", TextRec>> >>) >>

\* Flat records.
FlatRecords == <<
    Dict(<<>>),
    Dict(<< <<"id", TextRec>>, <<"title", TextT1>> >>),
    Dict(<< <<"title", TextT1>> >>),
    Dict(<< <<"id", EmptyStr>>, <<"title", Dict(<< <<"text", Num(5)>> >>)>> >>),
    Dict(<< <<"id", Num(5)>> >>),
    Dict(<< <<"@id", TextRec>>, <<"identifier", TextIsbn>> >>),
    Dict(<< <<"recordId", TextAlma>>, <<"identifier", TextOcm>> >>),
    Dict(<< <<"id", Null>>, <<"title", Dict(<< <<"text", Num(5)>> >>)>> >>),
    Dict(<< <<"mods", EmptyStr>>, <<"id", TextRec>> >>),
    Dict(<< <<"id", TextRec>>, <<"title", Dict(<< <<"text", Num(5)>> >>)>> >>),
    Dict(<< <<"identifier", TextAbc>>, <<"id", TextRec>>, <<"ID", TextIsbn>> >>),
    Dict(<< <<"identifier", Str(<<"9", "7", "7", "1">>)>>, <<"id", Str(<<"9", "7", "9", "1">>)>> >>) >>

\* The maps _parse_harvard_record is given: bare MODS blocks, wrapped MODS
\* blocks and flat records.
InputMaps ==
    ModsBlocks \o [i \in 1..Len(ModsBlocks) |-> Wrap(ModsBlocks[i])] \o FlatRecords

\* Decoded response bodies without their pagination entry.
BodyShapes == <<
    Dict(<< <<"items", Wrap(ModsBlocks[1])>> >>),
    Dict(<< <<"items", Dict(<< <<"a", Wrap(ModsBlocks[1])>>, <<"b", Wrap(ModsBlocks[3])>> >>)>> >>),
    Dict(<< <<"items", List(<< Wrap(ModsBlocks[2]), ModsBlocks[4], Wrap(ModsBlocks[5]) >>)>> >>),
    Dict(<< <<"items", Dict(<< <<"item", List(<< FlatRecords[2], TextAbc, FlatRecords[6] >>)>> >>)>> >>),
    Dict(<< <<"items", Dict(<< <<"item", FlatRecords[2]>> >>)>> >>),
    Dict(<< <<"items", Dict(<< <<"item", List(<< Null, FlatRecords[1], List(<<>>) >>)>> >>)>> >>),
    Dict(<< <<"items", Dict(<< <<"modsCollection", List(<< Wrap(ModsBlocks[1]), ModsBlocks[6] >>)>> >>)>> >>),
    Dict(<< <<"items", Dict(<<>>)>>, <<"mods", List(<< ModsBlocks[1], ModsBlocks[2] >>)>> >>),
    Dict(<< <<"items", Null>> >>),
    Dict(<<>>),
    FlatRecords[2],
    ModsBlocks[1],
    List(<< FlatRecords[2] >>),
    Null,
    Dict(<< <<"items", List(<<>>)>> >>) >>

Absent == [t |-> "absent", v |-> 0]

\* Pagination entries: none, a count as a number or as digits, a count that
\* is no number, a `total` count, and a null entry.
Paginations ==
    <<Absent>>
    \o [n \in 1..(MaxFound + 1) |-> Dict(<< <<"numFound", Num(n - 1)>> >>)]
    \o << Dict(<< <<"numFound", Str(<<"2">>)>> >>),
          Dict(<< <<"numFound", TextAbc>> >>),
          Dict(<< <<"total", Num(2)>> >>),
          Null >>

WithPagination(shape, pagination) ==
    IF IsDict(shape) /\ pagination.t # "absent"
    THEN Dict(Append(shape.v, <<"pagination", pagination>>))
    ELSE shape

Statuses == <<200, 404, 500>>
Formats == {"json", "xml"}

Whitespace == <<"\n", " ">>
TextTitle == <<"T", "e", "s", "t", " ", "B", "o", "o", "k", " ", "T", "i", "t", "l", "e">>
TextAuthor == <<"A", "u">>

Leaf(tag, ns, text) == Element(tag, ns, <<>>, text, <<>>)
TitleInfoElement(ns) ==
    Element("titleInfo", ns, <<>>, Whitespace, <<Leaf("title", ns, TextTitle)>>)
NameElement(ns) ==
    Element("name", ns, << <<"type", <<"p">> >> >>, Whitespace,
            << Leaf("namePart", ns, TextAuthor),
               Element("role", ns, <<>>, Whitespace, <<Leaf("roleTerm", ns, <<"a">>)>>) >>)
OriginInfoElement(ns) ==
    Element("originInfo", ns, <<>>, Whitespace,
            << Leaf("dateIssued", ns, <<"2", "0", "2", "3">>),
               Leaf("publisher", ns, <<"P">>) >>)
LanguageElement(ns) ==
    Element("language", ns, <<>>, Whitespace, <<Leaf("languageTerm", ns, <<"e", "n", "g">>)>>)

Copies(n, el) == [i \in 1..n |-> el]

\* A MODS document with the given numbers of titleInfo and name elements and
\* one originInfo and one language element, all in namespace ns.
ModsDocument(ns, titles, names, wellformed) ==
    Document(<<ns, titles, names, wellformed>>, wellformed,
        Element("mods", ns, <<>>, Whitespace,
            Copies(titles, TitleInfoElement(ns)) \o Copies(names, NameElement(ns))
            \o <<OriginInfoElement(ns), LanguageElement(ns)>>))

\* The sample of test_comprehensive.py, lines 241-259.
SampleDocument == ModsDocument(ModsNamespace, 1, 1, TRUE)

Namespaces == {ModsNamespace, ""}

\* Texts for the permalink derivation: an MMS ID made of "99" and eight
\* digits d, one digit short of an MMS ID, and one inside other characters.
AlmaId(d) == <<"9", "9">> \o [i \in 1..MinMmsDigits |-> d]
ShortId == <<"9", "9">> \o [i \in 1..(MinMmsDigits - 1) |-> "0"]
Embedded(cs) == <<"(", "9">> \o cs \o <<"7", ")", "9", "9">>

IdentifierMaps == <<
    Null,
    Dict(<<>>),
    Dict(<< <<"ISBN", TextIsbn>> >>),
    Dict(<< <<"ISBN", TextIsbn>>, <<"ID", Str(AlmaId("1"))>> >>),
    Dict(<< <<"ID", EmptyStr>>, <<"OCLC", Str(ShortId)>> >>),
    Dict(<< <<"ID", Str(Embedded(AlmaId("1")))>>, <<"LCCN", Str(AlmaId("5"))>> >>) >>

RecordInfos == <<
    Null,
    Dict(<<>>),
    Dict(<< <<"recordIdentifier", Str(AlmaId("2"))>> >>),
    Dict(<< <<"recordIdentifier", Dict(<< <<"@source", TextAbc>>,
                                          <<"#text", Str(AlmaId("2"))>> >>)>> >>),
    Dict(<< <<"recordIdentifier", Dict(<< <<"text", Str(AlmaId("2"))>> >>)>> >>),
    Dict(<< <<"recordIdentifier", List(<< Str(ShortId), Dict(<< <<"@source", TextAbc>> >>),
                                          Str(AlmaId("2")), Str(AlmaId("6")) >>)>> >>),
    Dict(<< <<"recordIdentifier", Dict(<< <<"@source", Str(AlmaId("2"))>> >>)>> >>),
    Dict(<< <<"recordIdentifier", Null>> >>),
    Dict(<< <<"recordIdentifier", Num(5)>> >>),
    Dict(<< <<"recordIdentifier", Dict(<< <<"text", Num(5)>> >>)>> >>),
    Dict(<< <<"recordContentSource", Str(AlmaId("2"))>> >>) >>

RecordIds == << Null, EmptyStr, TextRec, Str(AlmaId("3")), Str(ShortId),
                Repr(Dict(<< <<"recordIdentifier", Str(AlmaId("3"))>> >>)) >>

RecordDatas == <<
    Null,
    Dict(<<>>),
    Dict(<< <<"id", TextRec>>, <<"count", Num(5)>> >>),
    Dict(<< <<"mods", Dict(<< <<"note", List(<< Str(ShortId), Str(AlmaId("4")) >>)>> >>)>> >>) >>

\* Base URLs (the configured one, with and without a final slash, and a bare
\* host), the endpoints search and get_record_by_id build, and parameters.
ApiHost == "https://api.lib.harvard.edu"
BaseUrls == << <<ApiHost, "/", "v", "2">>, <<ApiHost, "/", "v", "2", "/">>, <<ApiHost>> >>

Endpoints == <<
    TextItems,
    <<"/">> \o TextItems,
    TextItems \o <<".", "j", "s", "o", "n">>,
    TextItems \o <<"/", "1">>,
    <<"/">> \o TextItems \o <<"/", "1", ".", "x", "m", "l">>,
    <<"/", "/">> \o TextItems >>

ParamMaps == <<
    Null,
    Dict(<<>>),
    Dict(<< <<"q", Str(<<"a", " ", "b">>)>>, <<"limit", Num(5)>> >>),
    Dict(<< <<"q", Str(<<"a", "&", "b", "=", "c">>)>>, <<"title", Null>>,
            <<"limit", Num(10)>>, <<"start", Num(0)>> >>),
    Dict(<< <<"q", Null>>, <<"sort", Null>> >>),
    Dict(<< <<"q", EmptyStr>>, <<"sort", Str(<<"t", "/", "1", "+", "%">>)>> >>) >>

\* <<start_date, end_date>> of a search: neither passed, one of them, both
\* with different dates, both with the same date, and an empty start_date.
Date2020 == Str(<<"2", "0", "2", "0">>)
Date2021 == Str(<<"2", "0", "2", "1">>)
DatePairs == << <<Null, Null>>, <<Date2020, Null>>, <<Null, Date2021>>,
                <<Date2020, Date2021>>, <<Date2021, Date2021>>, <<EmptyStr, Date2021>> >>

\* ------------------------------------------------- client and tool calls
clvars == <<op, out>>

Responses ==
    <<Response("neterr", 0, FALSE, Null)>>
    \o [s \in 1..Len(Statuses) |-> Response("ok", Statuses[s], FALSE, TextAbc)]
    \o [k \in 1..(Len(BodyShapes) * Len(Paginations)) |->
            Response("ok", 200, TRUE,
                WithPagination(BodyShapes[((k - 1) \div Len(Paginations)) + 1],
                               Paginations[((k - 1) % Len(Paginations)) + 1]))]

\* Each behaviour follows one call: the calls share no state, so a call is
\* made from the state in which none has been made.
Idle == op.name = "none"

DoParseRecord ==
    \E i \in 1..Len(InputMaps) :
        /\ Idle
        /\ op' = [name |-> "_parse_harvard_record", record_data |-> InputMaps[i]]
        /\ out' = RecordOrRaise(ParseHarvardRecord(InputMaps[i]))
        /\ UNCHANGED <<rlvars, rqvars>>

DoComputePermalink ==
    \E a \in 1..Len(RecordIds), b \in 1..Len(IdentifierMaps),
       c \in 1..Len(RecordInfos), d \in 1..Len(RecordDatas) :
        /\ Idle
        /\ op' = [name |-> "_compute_permalink_candidate",
                  record_id |-> RecordIds[a], identifiers |-> IdentifierMaps[b],
                  record_info |-> RecordInfos[c], record_data |-> RecordDatas[d]]
        /\ out' = Gives("permalink",
                        ComputePermalinkCandidate(RecordIds[a], IdentifierMaps[b],
                                                  RecordInfos[c], RecordDatas[d]))
        /\ UNCHANGED <<rlvars, rqvars>>

DoBuildUrl ==
    \E b \in 1..Len(BaseUrls), e \in 1..Len(Endpoints), q \in 1..Len(ParamMaps) :
        /\ Idle
        /\ op' = [name |-> "_build_url", base_url |-> BaseUrls[b],
                  endpoint |-> Endpoints[e], params |-> ParamMaps[q]]
        /\ out' = Gives("url", BuildUrl(BaseUrls[b], Endpoints[e], ParamMaps[q]))
        /\ UNCHANGED <<rlvars, rqvars>>

DoSearch ==
    \E limit \in 1..MaxLimit, offset \in 0..MaxOffset, fmt \in Formats,
       r \in 1..Len(Responses), d \in 1..Len(DatePairs) :
        /\ Idle
        /\ op' = [name |-> "search", limit |-> limit, offset |-> offset,
                  response_format |-> fmt, resp |-> Responses[r],
                  start_date |-> DatePairs[d][1], end_date |-> DatePairs[d][2]]
        /\ out' = WithRequest(SearchRequest(limit, offset, fmt,
                                            DatePairs[d][1], DatePairs[d][2]),
                              Search(limit, offset, fmt, Responses[r]))
        /\ UNCHANGED <<rlvars, rqvars>>

DoParseXmlResponse ==
    \E r \in 1..Len(Responses) :
        /\ Idle
        /\ MakeRequest(Responses[r]) = "response"
        /\ op' = [name |-> "_parse_xml_response", resp |-> Responses[r]]
        /\ out' = Gives("map", ParseXmlResponse(Responses[r]))
        /\ UNCHANGED <<rlvars, rqvars>>

DoExtractRecords ==
    \E fmt \in Formats, r \in 1..Len(Responses) :
        /\ Idle
        /\ Responses[r].decodable
        /\ op' = [name |-> "_extract_records_from_response",
                  response_data |-> Responses[r].body, format_type |-> fmt]
        /\ out' = Gives("extracted",
                        ExtractRecordsFromResponse(Responses[r].body, fmt))
        /\ UNCHANGED <<rlvars, rqvars>>

DoGetRecordById ==
    \E fmt \in Formats, r \in 1..Len(Responses) :
        /\ Idle
        /\ op' = [name |-> "get_record_by_id", response_format |-> fmt, resp |-> Responses[r]]
        /\ out' = GetRecordById(fmt, Responses[r])
        /\ UNCHANGED <<rlvars, rqvars>>

DoSearchTool ==
    \E tool \in SearchTools, limit \in 1..MaxLimit, offset \in 0..MaxOffset,
       fmt \in Formats, r \in 1..Len(Responses) :
        /\ Idle
        /\ op' = [name |-> tool, limit |-> limit, offset |-> offset,
                  response_format |-> fmt, resp |-> Responses[r]]
        /\ out' = SearchTool(limit, offset, fmt, Responses[r])
        /\ UNCHANGED <<rlvars, rqvars>>

DoGetRecordDetails ==
    \E fmt \in Formats, r \in 1..Len(Responses) :
        /\ Idle
        /\ op' = [name |-> "get_record_details", response_format |-> fmt, resp |-> Responses[r]]
        /\ out' = GetRecordDetails(fmt, Responses[r])
        /\ UNCHANGED <<rlvars, rqvars>>

DoGetCollectionsList ==
    /\ Idle
    /\ op' = [name |-> "get_collections_list"]
    /\ out' = GetCollectionsList
    /\ UNCHANGED <<rlvars, rqvars>>

DoParseModsMetadata ==
    \E ns \in Namespaces, titles \in 0..MaxRepeat, names \in 0..MaxRepeat,
       wellformed \in BOOLEAN :
        /\ Idle
        /\ op' = [name |-> "parse_mods_metadata",
                  doc |-> ModsDocument(ns, titles, names, wellformed)]
        /\ out' = ParseModsMetadata(ModsDocument(ns, titles, names, wellformed))
        /\ UNCHANGED <<rlvars, rqvars>>

DoCallTool ==
    \E n \in 0..Len(AdvertisedTools), limit \in 1..MaxLimit, fmt \in Formats,
       r \in 1..Len(Responses) :
        LET tool == IF n = 0 THEN "no_such_tool" ELSE AdvertisedTools[n]
        IN  /\ Idle
            /\ op' = [name |-> "handle_call_tool", tool |-> tool, limit |-> limit,
                      response_format |-> fmt, resp |-> Responses[r]]
            /\ out' = CallTool(tool, ToolOutcome(tool, limit, 0, fmt, Responses[r],
                                                 SampleDocument))
            /\ UNCHANGED <<rlvars, rqvars>>

DoHttpRoute ==
    \E n \in 1..Len(Routes), limit \in 1..MaxLimit, fmt \in Formats,
       r \in 1..Len(Responses) :
        /\ Idle
        /\ op' = [name |-> "http", route |-> Routes[n], limit |-> limit,
                  response_format |-> fmt, resp |-> Responses[r]]
        /\ out' = RouteResponse(ToolOutcome(Routes[n].tool, limit, 0, fmt, Responses[r],
                                            SampleDocument))
        /\ UNCHANGED <<rlvars, rqvars>>

CLInit ==
    /\ op = [name |-> "none"]
    /\ out = Gives("none", Null)

ClientNext ==
    \/ DoParseRecord
    \/ DoComputePermalink
    \/ DoBuildUrl
    \/ DoSearch
    \/ DoParseXmlResponse
    \/ DoExtractRecords
    \/ DoGetRecordById

ToolNext ==
    \/ DoSearchTool
    \/ DoGetRecordDetails
    \/ DoGetCollectionsList
    \/ DoParseModsMetadata

\* ------------------------------------------ concurrent calls on one client
\* A call is a tool function's use of the client: get_client, then search or
\* get_record_by_id, which awaits _make_request once.  stage is where the call
\* stands: "acquire" (suspended inside acquire), "request" (the request is
\* sent and awaited), "idle" (no call in progress).  The two operations do
\* the same up to the answer, so which of them a call is shows only in how
\* it ends.  What the call that ended last made of its request is kept in
\* op, what it gave in out.
Operations == {"search", "get_record_by_id"}

NoCall ==
    [stage |-> "idle", client |-> 0, acquires |-> 0, acquired |-> 0, sent |-> 0]

RQInit ==
    /\ call = [p \in Callers |-> NoCall]
    /\ client = 0
    /\ instances = 0

\* A variant that constructs a client on every call.
FreshClient(c) == instances + 1

\* get_client: `if _client is None: _client = HarvardLibraryClient()`, with
\* no await between the test and the assignment.
GetClient(c) == IF c = 0 THEN instances + 1 ELSE c

\* A variant that sends the request without awaiting acquire.
SentAtOnce(c, state) ==
    [c EXCEPT !.stage = IF state = "idle" THEN "request" ELSE "acquire",
              !.acquired = IF state = "idle" THEN c.acquired + 1 ELSE c.acquired,
              !.sent = c.sent + 1]

\* _make_request, lines 143-156, once acquire has run to its next suspension
\* point or to its end (state is the caller's place in acquire): when
\* acquire has returned, the URL is built and the request sent without
\* yielding to the event loop in between.
Entered(c, state) ==
    [c EXCEPT !.stage = IF state = "idle" THEN "request" ELSE "acquire",
              !.acquired = IF state = "idle" THEN c.acquired + 1 ELSE c.acquired,
              !.sent = IF state = "idle" THEN c.sent + 1 ELSE c.sent]

\* A tool function is called: get_client, search or get_record_by_id up to
\* `await self._make_request(...)`, and _make_request up to the first
\* suspension point of `await self.rate_limiter.acquire()`.
Begin(p) ==
    /\ call[p].stage = "idle"
    /\ client' = GetClient(client)
    /\ instances' = IF client' = client THEN instances ELSE instances + 1
    /\ Acquire(p)
    /\ call' = [call EXCEPT ![p] =
                    Entered([NoCall EXCEPT !.client = client', !.acquires = 1], pc'[p])]
    /\ UNCHANGED <<op, out>>

\* The lock is granted to the call queued for it.
Proceed(p) ==
    /\ call[p].stage = "acquire"
    /\ Granted(p)
    /\ call' = [call EXCEPT ![p] = Entered(call[p], pc'[p])]
    /\ UNCHANGED <<op, out, client, instances>>

\* asyncio.sleep returns and acquire with it.
Awake(p) ==
    /\ call[p].stage = "acquire"
    /\ Slept(p)
    /\ call' = [call EXCEPT ![p] = Entered(call[p], pc'[p])]
    /\ UNCHANGED <<op, out, client, instances>>

\* The upstream exchanges a request may end with.
Exchanges == SubSeq(Responses, 1, 5)

\* A variant that sends the request again after a failure.
Resent(c, kind) == IF kind = "raised" THEN [c EXCEPT !.sent = c.sent + 1] ELSE NoCall

\* The except clauses of _make_request, search and get_record_by_id re-raise
\* (or return None for 404), and none calls _make_request again: whatever
\* the exchange gave, the call is over.
Settled(c, kind) == NoCall

\* What the operation gives on that exchange.
Outcome(fn, resp) ==
    IF fn = "search" THEN Search(1, 0, "json", resp).kind
    ELSE GetRecordById("json", resp).kind

\* What the request and the operation give, for each operation and exchange.
Endings ==
    {[request |-> MakeRequest(Exchanges[x]), kind |-> Outcome(fn, Exchanges[x])] :
        fn \in Operations, x \in 1..Len(Exchanges)}

\* The awaited request ends: lines 156-168 of _make_request and the rest of
\* search or get_record_by_id.
Ended(p, request, kind) ==
    /\ call' = [call EXCEPT ![p] = Settled(call[p], kind)]
    /\ op' = [name |-> "call", request |-> request]
    /\ out' = Gives(IF kind = "raised" THEN "raised" ELSE "returned", Null)

Answer(p) ==
    \E e \in Endings :
        /\ call[p].stage = "request"
        /\ Ended(p, e.request, e.kind)
        /\ UNCHANGED <<rlvars, client, instances>>

RequestNext ==
    \/ \E p \in Callers : Begin(p)
    \/ \E p \in Callers : Proceed(p)
    \/ \E p \in Callers : Awake(p)
    \/ \E p \in Callers : Answer(p)
    \/ Tick

\* The two front ends of the ToolLayer.
ServerNext ==
    \/ DoCallTool
    \/ DoHttpRoute

vars == <<rlvars, clvars, rqvars>>

Init == RLInit /\ CLInit /\ RQInit

SpecLimiter == Init /\ [][RLNext]_vars

\* The client's operations, each on any upstream exchange.
SpecClient == Init /\ [][ClientNext]_vars

\* The ToolLayer's functions, each on any upstream exchange.
SpecTools == Init /\ [][ToolNext]_vars

\* Tool calls over MCP and requests to the HTTP mirror.
SpecServers == Init /\ [][ServerNext]_vars

\* Concurrent search and get_record_by_id calls made through get_client.
SpecRequests == Init /\ [][RequestNext]_vars

\* ------------------------------------------------ cancellation of acquire
\* The sleeping caller ends without giving the lock back.
CancelledHoldingLock(p) ==
    /\ pc[p] = "sleep"
    /\ locked' = TRUE
    /\ pc' = [pc EXCEPT ![p] = "idle"]
    /\ UNCHANGED <<now, tokens, last_update, waiters, wake_at, slot, log>>

\* acquire, lines 36-50: the task is cancelled while it awaits asyncio.sleep.
\* CancelledError leaves the `async with` block, whose exit releases the
\* lock; line 51 is not reached.  The call's entry in log keeps ret = -1.
Cancelled(p) ==
    /\ pc[p] = "sleep"
    /\ locked' = LockAfterExit
    /\ pc' = [pc EXCEPT ![p] = "idle"]
    /\ UNCHANGED <<now, tokens, last_update, waiters, wake_at, slot, log>>

Cancel(p) ==
    /\ Cancelled(p)
    /\ UNCHANGED <<op, out, call, client, instances>>

CancelNext ==
    \/ \E p \in Callers : Call(p)
    \/ \E p \in Callers : Resume(p)
    \/ \E p \in Callers : Wake(p)
    \/ \E p \in Callers : Cancel(p)
    \/ Tick

\* The limiter with callers that may be cancelled while they sleep.
SpecCancel == Init /\ [][CancelNext]_vars

FairCancel ==
    /\ SpecCancel
    /\ WF_vars(Tick)
    /\ \A p \in Callers : WF_vars(Resume(p)) /\ WF_vars(Wake(p))

\* The event loop resumes every runnable task and the clock advances.
FairLimiter ==
    /\ SpecLimiter
    /\ WF_vars(Tick)
    /\ \A p \in Callers : WF_vars(Resume(p)) /\ WF_vars(Wake(p))

\* ----------------------------------------------------- RateLimiter claims
Returned == {i \in 1..Len(log) : log[i].ret >= 0}

\* C1: in every window of length T the number of acquire() calls that return
\* is at most burst_size + requests_per_second * T.  Calls return in log
\* order, so the calls i..j all return within [log[i].ret, log[j].ret];
\* both sides are multiplied by TokenUnit.
C1_RateBound ==
    \A i, j \in Returned :
        i <= j => (j - i + 1) * TokenUnit
                    <= Burst * TokenUnit + (log[j].ret - log[i].ret)

\* The first k calls entered acquire with no time elapsed since construction.
NoTimeElapsed(k) == \A i \in 1..k : log[i].enter = 0

\* C2: with no time elapsing, the first burst_size calls return without
\* suspending and the next one suspends for 1/requests_per_second
\* (TokenUnit ticks) before it returns.
C2_BurstThenWait ==
    \A k \in 1..Len(log) :
        NoTimeElapsed(k) =>
            /\ k <= Burst => log[k].wait = 0 /\ log[k].ret = log[k].enter
            /\ k = Burst + 1 =>
                  /\ log[k].wait = TokenUnit
                  /\ log[k].ret >= 0 => log[k].ret >= log[k].enter + TokenUnit

C2_Witness ==
    /\ Len(log) > Burst
    /\ NoTimeElapsed(Burst + 1)
    /\ log[Burst + 1].ret >= 0

InBody(p) == pc[p] = "sleep"

C4_EveryCallReturns ==
    /\ \A p \in Callers : (pc[p] # "idle") ~> (pc[p] = "idle")
    /\ []((\A p \in Callers : pc[p] = "idle") => ~locked)

C4_Witness ==
    /\ \A p \in Callers : pc[p] = "idle"
    /\ \E i \in Returned : log[i].wait > 0
    /\ \E i \in Returned : log[i].enter > 0 /\ i > 1 /\ log[i - 1].wait > 0

\* ------------------------------------------------ client and tool claims
\* What _extract_records_from_response gives for the exchange of a search.
Upstream ==
    ExtractRecordsFromResponse(ResponseData(op.response_format, op.resp),
                               op.response_format)

\* C5: the SearchResult of every search carries the caller's limit and
\* offset and has_more == (offset + limit < total_count) for the
\* total_count of that same result.
C5_HasMore ==
    op.name = "search" /\ out.kind = "result" =>
        /\ out.val.limit = op.limit
        /\ out.val.offset = op.offset
        /\ out.val.has_more = (op.offset + op.limit < out.val.total_count)

C5_Witness ==
    /\ op.name = "search"
    /\ out.kind = "result"
    /\ out.val.total_count > 0
    /\ op.offset + op.limit = out.val.total_count
    /\ ~out.val.has_more

\* C6: _parse_harvard_record is total on maps: it returns a record without
\* raising, the record's id is a non-empty string and its identifiers is a
\* mapping.
C6_ParseTotal ==
    op.name = "_parse_harvard_record" /\ IsDict(op.record_data) =>
        /\ out.kind = "record"
        /\ IsStr(out.val.v.id)
        /\ Truthy(out.val.v.id)
        /\ IsDict(out.val.v.identifiers)

\* C7: get_record_by_id gives None on an upstream 404 and raises on every
\* other non-2xx status and on a network failure; search raises on a 404.
C7_NotFound ==
    /\ op.name = "get_record_by_id" =>
        /\ op.resp.kind = "ok" /\ op.resp.status = NotFound => out.kind = "none"
        /\ op.resp.kind = "ok" /\ ~IsSuccess(op.resp.status) /\ op.resp.status # NotFound
              => out.kind = "raised"
        /\ op.resp.kind = "neterr" => out.kind = "raised"
    /\ op.name = "search" /\ op.resp.kind = "ok" /\ op.resp.status = NotFound
          => out.kind = "raised"

C7_Witness ==
    /\ op.name = "get_record_by_id"
    /\ op.resp.kind = "ok"
    /\ op.resp.status = NotFound
    /\ out = Gives("none", Null)

\* C8: every ToolLayer function returns an envelope and never raises: when
\* the client call fails (or finds nothing) the envelope has success =
\* false, an error text and records = [] or record = null; otherwise it
\* has success = true.
C8_Envelope ==
    op.name # "none" =>
        /\ out.kind = "envelope"
        /\ op.name \in SearchTools =>
              IF Search(op.limit, op.offset, op.response_format, op.resp).kind = "raised"
              THEN /\ out.val.success = FALSE
                   /\ "error" \in DOMAIN out.val
                   /\ out.val.records = <<>>
              ELSE out.val.success = TRUE
        /\ op.name = "get_record_details" =>
              IF GetRecordById(op.response_format, op.resp).kind \in {"raised", "none"}
              THEN /\ out.val.success = FALSE
                   /\ "error" \in DOMAIN out.val
                   /\ out.val.record = Null
              ELSE out.val.success = TRUE
        /\ op.name \in {"get_collections_list", "parse_mods_metadata"} =>
              out.val.success \in BOOLEAN

C8_Witness ==
    /\ op.name \in SearchTools
    /\ op.resp.kind = "ok"
    /\ ~IsSuccess(op.resp.status)
    /\ out.kind = "envelope"
    /\ out.val.success = FALSE
    /\ out.val.records = <<>>

\* The raw records of a search whose normalization succeeds, normalized.
Normalized(records_data) ==
    SelectSeq([i \in 1..Len(records_data) |-> ParseHarvardRecord(records_data[i])],
              LAMBDA record : ~IsExc(record))

SomeRecordFails ==
    \E i \in 1..Len(Upstream.records) : IsExc(ParseHarvardRecord(Upstream.records[i]))

\* C9: a raw record whose normalization fails is skipped and the search
\* still returns a SearchResult: its records are the successfully
\* normalized raw records in upstream order, and total_count and has_more
\* are what the upstream response gives, skipped records or not.
C9_SkipFailed ==
    op.name = "search" /\ MakeRequest(op.resp) = "response" /\ op.resp.decodable =>
        /\ SomeRecordFails => out.kind = "result"
        /\ out.kind = "result" =>
              /\ out.val.records = Normalized(Upstream.records)
              /\ out.val.total_count = Upstream.total_count
              /\ out.val.has_more = (op.offset + op.limit < Upstream.total_count)

C9_Witness ==
    /\ op.name = "search"
    /\ out.kind = "result"
    /\ \E i, j \in 1..Len(Upstream.records) :
          /\ i < j
          /\ IsExc(ParseHarvardRecord(Upstream.records[i]))
          /\ ~IsExc(ParseHarvardRecord(Upstream.records[j]))
    /\ out.val.records # <<>>
    /\ out.val.has_more

\* The titleInfo elements of a document.
TitleInfos(doc) == SelectSeq(doc.root.children, LAMBDA el : el.tag = "titleInfo")

\* C10: for a well-formed MODS document with one titleInfo element of title
\* T, parse_mods_metadata returns success = true and parsed_metadata.title
\* equal to T.
C10_TitleRoundTrip ==
    /\ op.name = "parse_mods_metadata"
    /\ op.doc.wellformed
    /\ Len(TitleInfos(op.doc)) = 1
    => /\ out.kind = "envelope"
       /\ out.val.success = TRUE
       /\ out.val.parsed_metadata.title = Str(TitleInfos(op.doc)[1].children[1].text)

\* ---------------------------------------------------------- from_xml claims
MetadataFields ==
    {"title_info", "name_info", "origin_info", "language", "physical_description",
     "subjects", "classification", "related_items", "identifiers", "locations",
     "record_info"}

\* C11: from_xml never raises: parse_mods_metadata, which only wraps it,
\* succeeds on every text; raw_xml is the input text in every case, and for
\* a text that cannot be parsed every other field is absent.
C11_FromXmlTotal ==
    op.name = "parse_mods_metadata" =>
        /\ out.kind = "envelope"
        /\ out.val.success = TRUE
        /\ out.val.full_metadata.raw_xml = op.doc.source
        /\ ~op.doc.wellformed =>
              \A f \in MetadataFields : out.val.full_metadata[f].t = "null"

C11_Witness ==
    /\ op.name = "parse_mods_metadata"
    /\ ~op.doc.wellformed
    /\ Len(op.doc.root.children) > 2
    /\ out.val.full_metadata.raw_xml = op.doc.source
    /\ out.val.full_metadata.title_info.t = "null"

\* --------------------------------------------------------- permalink claim
\* The text of one recordIdentifier entry: its text node, else its str().
EntryText(cand) ==
    IF IsDict(cand) /\ HasKey(cand, "text") /\ Truthy(Lookup(cand, "text"))
    THEN Chars(ToText(Lookup(cand, "text")))
    ELSE IF IsDict(cand) /\ HasKey(cand, "#text") /\ Truthy(Lookup(cand, "#text"))
    THEN Chars(ToText(Lookup(cand, "#text")))
    ELSE Chars(ToText(cand))

\* The sources of a permalink in priority order, as texts: the identifier
\* values, the recordIdentifier entries of the record info, the record id
\* and the serialized raw record.
SourceTexts ==
    (IF IsDict(op.identifiers)
     THEN [i \in 1..Len(op.identifiers.v) |-> Chars(ToText(op.identifiers.v[i][2]))]
     ELSE <<>>)
    \o [i \in 1..Len(Candidates(op.record_info)) |->
            EntryText(Candidates(op.record_info)[i])]
    \o (IF op.record_id.t = "null" THEN <<>> ELSE <<Chars(ToText(op.record_id))>>)
    \o (IF op.record_data.t = "null" THEN <<>> ELSE <<Chars(ToText(op.record_data))>>)

Matching == {i \in 1..Len(SourceTexts) : PatternSearch(SourceTexts[i]) # <<>>}

\* C12: the permalink is https://id.lib.harvard.edu/alma/<match>/catalog
\* for the first match of "99" and at least 8 digits in the first source,
\* in priority order, that has one; it is absent exactly when no source
\* has a match.
C12_PermalinkPriority ==
    op.name = "_compute_permalink_candidate" =>
        IF Matching = {} THEN out.val.t = "null"
        ELSE /\ out.val.t = "str"
             /\ \E i \in Matching :
                   /\ \A j \in Matching : i <= j
                   /\ out.val.v = AlmaPrefix \o PatternSearch(SourceTexts[i]) \o CatalogSuffix

\* The priority order does hold whenever every recordIdentifier entry that
\* is a map has text for its text node.
PriorityOnTextEntries ==
    /\ op.name = "_compute_permalink_candidate"
    /\ \A i \in 1..Len(Candidates(op.record_info)) :
          IsDict(Candidates(op.record_info)[i]) =>
              IsStr(CandidateVal(Candidates(op.record_info)[i]))
    => C12_PermalinkPriority

\* ---------------------------------------------------------------- C13
\* What a server reads back from a query string: "+" is a space and "%XX"
\* the character with that code.
Decoded(a, b) ==
    CASE <<a, b>> = <<"2", "6">> -> "&"
      [] <<a, b>> = <<"3", "D">> -> "="
      [] <<a, b>> = <<"2", "F">> -> "/"
      [] <<a, b>> = <<"3", "F">> -> "?"
      [] <<a, b>> = <<"2", "B">> -> "+"
      [] <<a, b>> = <<"2", "5">> -> "%"
      [] OTHER -> "?"

RECURSIVE Unquote(_)
Unquote(cs) ==
    IF cs = <<>> THEN <<>>
    ELSE IF Head(cs) = "%" /\ Len(cs) >= 3
         THEN <<Decoded(cs[2], cs[3])>> \o Unquote(SubSeq(cs, 4, Len(cs)))
    ELSE <<IF Head(cs) = "+" THEN " " ELSE Head(cs)>> \o Unquote(Tail(cs))

\* The name and decoded value of every field of a query string.
ParseQuery(cs) ==
    LET fields == Split(cs, "&")
    IN  [i \in 1..Len(fields) |->
            <<fields[i][1], Unquote(SubSeq(fields[i], 3, Len(fields[i])))>>]

\* The parameters whose value is not None, as name and text.
GivenParams ==
    IF op.params.t # "dict" THEN <<>>
    ELSE LET given == SelectSeq(op.params.v, LAMBDA kv : kv[2].t # "null")
         IN  [i \in 1..Len(given) |-> <<given[i][1], Chars(given[i][2])>>]

\* The base URL without its final slash, one slash, the endpoint without its
\* leading slashes.
SlashJoined ==
    (IF op.base_url[Len(op.base_url)] = "/"
     THEN SubSeq(op.base_url, 1, Len(op.base_url) - 1) ELSE op.base_url)
    \o <<"/">> \o LStripSlash(op.endpoint)

\* C13: _build_url gives the base URL and the endpoint separated by exactly
\* one slash, then nothing when no parameter has a value, else "?" and a
\* query string that decodes to exactly the parameters whose value is not
\* None, in their order.
C13_BuildUrl ==
    op.name = "_build_url" =>
        /\ StartsWith(out.val.v, SlashJoined)
        /\ LET query == SubSeq(out.val.v, Len(SlashJoined) + 1, Len(out.val.v))
           IN  IF GivenParams = <<>> THEN query = <<>>
               ELSE /\ Head(query) = "?"
                    /\ ParseQuery(Tail(query)) = GivenParams
                    /\ \A i \in 2..Len(query) : query[i] \notin {" ", "?", "/"}

\* A base URL ending with a slash, an endpoint starting with one, and
\* parameters of which one is None and one holds characters to encode.
C13_Witness ==
    /\ op.name = "_build_url"
    /\ op.base_url[Len(op.base_url)] = "/"
    /\ Head(op.endpoint) = "/"
    /\ op.params.t = "dict"
    /\ \E i \in 1..Len(op.params.v) : op.params.v[i][2].t = "null"
    /\ Len(GivenParams) = 3
    /\ \E i \in 1..Len(out.val.v) : out.val.v[i] = "%"

\* ---------------------------------------------------------------- C14
\* C14: a call of any of the twelve advertised tool names is routed to the
\* function of that name, which the ToolLayer implements; a call of any other
\* name gives the 'Unknown tool' result with success = false.
C14_Routing ==
    op.name = "handle_call_tool" =>
        /\ out.kind = "text"
        /\ IF \E n \in 1..Len(AdvertisedTools) : AdvertisedTools[n] = op.tool
           THEN out.val.function = op.tool /\ op.tool \in ToolLayerFunctions
           ELSE /\ out.val.function = "none"
                /\ out.val.result = [success |-> FALSE, error |-> "Unknown tool"]

C17_AcquireBeforeRequest ==
    \A p \in Callers :
        /\ call[p].sent <= call[p].acquired
        /\ call[p].sent > 0 =>
              /\ pc[p] = "idle"
              /\ slot[p] \in 1..Len(log)
              /\ log[slot[p]].caller = p
              /\ log[slot[p]].ret >= log[slot[p]].enter

\* Two calls have their requests out at once, one of them after sleeping
\* in acquire for a token.
C17_Witness ==
    \E p, q \in Callers :
        /\ p # q
        /\ call[p].stage = "request"
        /\ log[slot[p]].wait > 0
        /\ log[slot[p]].ret > log[slot[p]].enter
        /\ call[q].stage = "request"

\* ---------------------------------------------------------------- C18
\* C18: a call makes one acquire() and sends at most one request; when its
\* request has failed the call is over at once, with that one acquire and
\* that one request, no other call is touched and the limiter's tokens are
\* left as they are.
C18_NoRetry ==
    [][\A p \in Callers :
          /\ call'[p].acquires <= 1
          /\ call'[p].sent <= 1
          /\ call'[p].stage # "idle" => call'[p].acquires = 1
          /\ (call[p].stage = "request" /\ call'[p] # call[p]) =>
                /\ call[p].acquires = 1 /\ call[p].acquired = 1 /\ call[p].sent = 1
                /\ call'[p].stage = "idle"
                /\ op'.request \in {"RequestError", "HTTPStatusError"} =>
                      /\ tokens' = tokens
                      /\ \A q \in Callers \ {p} : call'[q] = call[q]]_vars

\* A call has failed on a network error after its one request; the bucket
\* is one token short of full and the other call still awaits its answer.
C18_Witness ==
    /\ op.name = "call"
    /\ op.request = "RequestError"
    /\ out.kind = "raised"
    /\ tokens = InitTokens - 2 * TokenUnit
    /\ \E p, q \in Callers : call[p].stage = "idle" /\ call[q].stage = "request"

\* ---------------------------------------------------------------- C19
\* C19: at most one client is ever constructed; once constructed it stays
\* the module's client, and every call that has begun holds that instance.
C19_OneClient ==
    /\ instances <= 1
    /\ client = instances
    /\ \A p \in Callers : call[p].stage # "idle" => call[p].client = 1

\* Two calls in progress at once, both on the one instance.
C19_Witness ==
    /\ instances = 1
    /\ \A p \in Callers : call[p].stage \in {"acquire", "request"}
    /\ \E p \in Callers : call[p].stage = "acquire"

\* ---------------------------------------------------------------- C20
\* The text of an identifier value: a plain string or the text node of a map,
\* of the first entry when there are several.
RECURSIVE IdText(_)
IdText(x) ==
    IF IsStr(x) THEN x
    ELSE IF IsDict(x) /\ HasKey(x, "#text") THEN IdText(Lookup(x, "#text"))
    ELSE IF IsDict(x) /\ HasKey(x, "text") THEN IdText(Lookup(x, "text"))
    ELSE IF IsList(x) /\ Truthy(x) THEN IdText(x.v[1])
    ELSE EmptyStr

\* The three places of a MODS block the record id is looked for, in order.
IdSources(mods) ==
    << IdText(GetOr(GetOr(mods, "recordInfo", Dict(<<>>)), "recordIdentifier", Null)),
       IdText(GetOr(mods, "identifier", Null)),
       IdText(GetOr(mods, "id", Null)) >>

\* C20: the id of a MODS-shaped record is the first non-empty text among the
\* recordIdentifier inside recordInfo, the first identifier entry and the
\* bare id, and the synthesized id only when all three are empty.
C20_RecordIdOrder ==
    (op.name = "_parse_harvard_record" /\ out.kind = "record"
     /\ Truthy(ModsData(op.record_data))) =>
        LET sources == SelectSeq(IdSources(ModsData(op.record_data)),
                                 LAMBDA s : s # EmptyStr)
        IN  out.val.v.id = IF sources = <<>> THEN SynthesizedId ELSE sources[1]

\* ---------------------------------------------------------------- C21
\* The name entries of a MODS block: the value under name, else the one under
\* nameInfo, a single object counting as a list of one.
NameEntries(mods) ==
    LET found == IF HasKey(mods, "name") THEN Lookup(mods, "name")
                 ELSE GetOr(mods, "nameInfo", List(<<>>))
    IN IF IsDict(found) THEN <<found>> ELSE IF IsList(found) THEN found.v ELSE <<>>

\* The namePart values of one name entry, one value counting as a list of one.
NameParts(entry) ==
    LET parts == GetOr(entry, "namePart", List(<<>>)) IN
    IF IsList(parts) THEN parts.v ELSE <<parts>>

RECURSIVE AllNameParts(_)
AllNameParts(entries) ==
    IF entries = <<>> THEN <<>>
    ELSE NameParts(Head(entries)) \o AllNameParts(Tail(entries))

\* Every name entry is an object and every namePart of it a non-empty text.
NamesOfObjects(mods) ==
    /\ NameEntries(mods) # <<>>
    /\ \A i \in 1..Len(NameEntries(mods)) :
          /\ IsDict(NameEntries(mods)[i])
          /\ \A j \in 1..Len(NameParts(NameEntries(mods)[i])) :
                LET part == NameParts(NameEntries(mods)[i])[j]
                IN  part.t = "str" /\ Truthy(part)

\* C21: the authors of a MODS-shaped record whose name or nameInfo is an
\* object or a list of objects are the namePart values of all the name
\* entries, in the order met and with repetitions kept.
C21_EveryNamePart ==
    (op.name = "_parse_harvard_record" /\ out.kind = "record"
     /\ Truthy(ModsData(op.record_data))
     /\ NamesOfObjects(ModsData(op.record_data))) =>
        /\ out.val.v.authors.t = "list"
        /\ out.val.v.authors.v = AllNameParts(NameEntries(ModsData(op.record_data)))

\* ---------------------------------------------------------------- C22
\* The identifier entries of a MODS block, a single entry counting as a list
\* of one.
IdentifierEntries(mods) ==
    LET found == GetOr(mods, "identifier", List(<<>>)) IN
    IF IsDict(found) THEN <<found>> ELSE IF IsList(found) THEN found.v ELSE <<>>

\* An entry with an @type attribute and a text value.
TypedEntry(entry) ==
    /\ IsDict(entry)
    /\ HasKey(entry, "@type") /\ Lookup(entry, "@type").t = "str"
    /\ HasKey(entry, "#text") \/ HasKey(entry, "text")
    /\ IdText(entry) # EmptyStr

\* C22: the identifiers of a MODS-shaped record whose identifier entries all
\* carry an @type attribute and a text value hold, for every entry, the text
\* value under the upper-cased type.
C22_TypedIdentifiers ==
    (op.name = "_parse_harvard_record" /\ out.kind = "record"
     /\ Truthy(ModsData(op.record_data))
     /\ IdentifierEntries(ModsData(op.record_data)) # <<>>
     /\ \A i \in 1..Len(IdentifierEntries(ModsData(op.record_data))) :
           TypedEntry(IdentifierEntries(ModsData(op.record_data))[i])) =>
        \A i \in 1..Len(IdentifierEntries(ModsData(op.record_data))) :
            LET entry == IdentifierEntries(ModsData(op.record_data))[i]
                key == Upper(Lookup(entry, "@type"))
            IN  /\ HasKey(out.val.v.identifiers, key)
                /\ Lookup(out.val.v.identifiers, key) = IdText(entry)

\* ---------------------------------------------------------------- C23
\* The scheme the first three characters of an untyped identifier stand for.
SchemeOf(cs) ==
    LET prefix == SubSeq(cs, 1, Min(3, Len(cs))) IN
    IF prefix \in {<<"9", "7", "8">>, <<"9", "7", "9">>} THEN KeyISBN
    ELSE IF prefix = <<"9", "7", "7">> THEN KeyISSN
    ELSE IF prefix = <<"o", "c", "m">> THEN KeyOCLC
    ELSE KeyID

\* The map the identifier fields are read from: the MODS block of a
\* MODS-shaped record, the record itself otherwise.
FieldsOf(rd) == IF Truthy(ModsData(rd)) THEN ModsData(rd) ELSE rd

UntypedText(data, field) ==
    /\ HasKey(data, field)
    /\ Lookup(data, field).t = "str"
    /\ Truthy(Lookup(data, field))

\* No identifier entry with a type: the identifier field is absent or a text.
NoTypedIdentifier(data) ==
    ~HasKey(data, "identifier") \/ Lookup(data, "identifier").t \in {"str", "null"}

\* The identifier fields after field i whose text has the scheme of field i.
LaterOfScheme(data, i) ==
    {j \in (i + 1)..Len(GenericFields) :
        /\ UntypedText(data, GenericFields[j])
        /\ SchemeOf(Lookup(data, GenericFields[j]).v)
               = SchemeOf(Lookup(data, GenericFields[i]).v)}

Given(date) == date.t = "str" /\ date.v # <<>>

\* C24: the one date filter of a search request, dateIssued, is start_date
\* when start_date is given, end_date when only end_date is given and is not
\* sent when neither is; with start_date given, a different end_date is not
\* in the request under any name.
C24_DateFilter ==
    op.name = "search" =>
        LET params == out.request.params IN
        /\ Given(op.start_date) =>
              /\ HasKey(params, "dateIssued")
              /\ Lookup(params, "dateIssued") = op.start_date
              /\ \A i \in 1..Len(params.v) :
                    params.v[i][2].t = "str" => params.v[i][2] = op.start_date
        /\ (~Given(op.start_date) /\ Given(op.end_date)) =>
              /\ HasKey(params, "dateIssued")
              /\ Lookup(params, "dateIssued") = op.end_date
        /\ (~Given(op.start_date) /\ ~Given(op.end_date)) =>
              ~HasKey(params, "dateIssued")
        /\ Cardinality({i \in 1..Len(params.v) : params.v[i][1] = "dateIssued"}) <= 1

\* A search was made with two different dates.
C24_Witness ==
    /\ op.name = "search"
    /\ Given(op.start_date) /\ Given(op.end_date)
    /\ op.start_date # op.end_date
    /\ Lookup(out.request.params, "dateIssued") = op.start_date

\* ---------------------------------------------------------------- C25
\* The count the response reports: pagination is absent or a map, and its
\* numFound entry, when it has one, is a number or a text of digits.
CountGiven(response_data) ==
    /\ HasKey(response_data, "pagination")
    /\ IsDict(Lookup(response_data, "pagination"))
    /\ HasKey(Lookup(response_data, "pagination"), "numFound")

CountReadable(response_data) ==
    \/ ~HasKey(response_data, "pagination")
    \/ /\ IsDict(Lookup(response_data, "pagination"))
       /\ CountGiven(response_data) =>
             ~IsExc(IntOf(Lookup(Lookup(response_data, "pagination"), "numFound")))

\* A map of one or more keyed sub-records, each a map with a mods entry.
KeyedSubRecords(items) ==
    /\ IsDict(items) /\ ~HasKey(items, "mods") /\ Len(items.v) >= 1
    /\ \A i \in 1..Len(items.v) : IsDict(items.v[i][2]) /\ HasKey(items.v[i][2], "mods")

\* The MODS content of a list item: its mods entry, or the item itself.
ModsOf(item) ==
    IF IsDict(item) /\ HasKey(item, "mods") THEN Lookup(item, "mods") ELSE item

Occurrences(doc, tag) ==
    Len(SelectSeq(doc.root.children, LAMBDA el : el.tag = tag))

\* Absent for no occurrence, one map for one, a list of maps for several.
ShapedByCount(count, value) ==
    IF count = 0 THEN value.t = "null"
    ELSE IF count = 1 THEN IsDict(value)
    ELSE IsList(value) /\ Len(value.v) = count

\* C27: from_xml on a well-formed MODS document returns every top-level
\* element type by its number of occurrences: absent for none, a single map
\* for one, a list of maps for several, whatever the numbers of the other
\* element types are.
C27_OneOrMany ==
    (op.name = "parse_mods_metadata" /\ op.doc.wellformed
     /\ op.doc.root.ns = ModsNamespace) =>
        LET m == out.val.full_metadata IN
        /\ ShapedByCount(Occurrences(op.doc, "titleInfo"), m.title_info)
        /\ ShapedByCount(Occurrences(op.doc, "name"), m.name_info)
        /\ ShapedByCount(Occurrences(op.doc, "originInfo"), m.origin_info)
        /\ ShapedByCount(Occurrences(op.doc, "language"), m.language)
        /\ ShapedByCount(Occurrences(op.doc, "subject"), m.subjects)

\* ---------------------------------------------------------------- C28
\* C28: in every reachable state of the limiter, whatever acquire calls were
\* made and however they interleave, tokens is at least 0 and at most
\* burst_size, and no step makes last_update smaller.
C28_TokensInRange ==
    /\ [](0 <= tokens /\ tokens <= Burst * TokenUnit)
    /\ [][last_update' >= last_update]_vars

\* The bucket stands at 0 after a caller slept, and a call entered at a later
\* time than the construction was served at once from the refilled bucket.
C28_Witness ==
    /\ tokens = 0
    /\ last_update > 0
    /\ \E i \in 1..Len(log) : log[i].wait > 0 /\ log[i].ret >= 0
    /\ \E i \in 1..Len(log) : log[i].enter > 0 /\ log[i].wait = 0

\* ---------------------------------------------------------------- C29
\* Two field values are the same value.
SameValue(a, b) == a.t = b.t /\ (a.t # "null" => a.v = b.v)

\* Two normalized records agree on id, title, authors and identifiers.
SameRecord(a, b) ==
    /\ SameValue(a.v.id, b.v.id)
    /\ SameValue(a.v.title, b.v.title)
    /\ SameValue(a.v.authors, b.v.authors)
    /\ SameValue(a.v.identifiers, b.v.identifiers)

\* The one record a search result holds is the given record.
OnlyRecordIs(result, record) ==
    /\ result.kind = "result"
    /\ Len(result.val.records) = 1
    /\ SameRecord(result.val.records[1], record)

\* A decoded body that nests one record under items -> mods.
NestedUnderItemsMods(body) ==
    /\ IsDict(body) /\ HasKey(body, "items")
    /\ IsDict(Lookup(body, "items")) /\ HasKey(Lookup(body, "items"), "mods")
    /\ IsDict(Lookup(Lookup(body, "items"), "mods"))

\* C29: for a detail response that nests the record under items -> mods,
\* get_record_by_id returns the normalized record that search returns for a
\* response carrying the same single record.
C29_DetailAsSearch ==
    (op.name = "get_record_by_id" /\ MakeRequest(op.resp) = "response"
     /\ op.resp.decodable /\ NestedUnderItemsMods(op.resp.body)) =>
        /\ out.kind = "record"
        /\ OnlyRecordIs(Search(1, 0, op.response_format, op.resp), out.val)

\* ---------------------------------------------------------------- C30
\* The calls that were cancelled: never returned and no longer in progress.
CancelledCalls ==
    {i \in 1..Len(log) :
        /\ log[i].ret < 0
        /\ ~(pc[log[i].caller] = "sleep" /\ slot[log[i].caller] = i)}

\* C30: the step that cancels a caller sleeping inside acquire() leaves the
\* lock free and tokens as it was, and under fair scheduling every call that
\* is waiting, then or later, leaves acquire().
C30_CancelReleases ==
    /\ [][\A p \in Callers :
            (pc[p] = "sleep" /\ pc'[p] = "idle" /\ log'[slot[p]].ret < 0) =>
                (~locked' /\ tokens' = tokens /\ last_update' = last_update)]_vars
    /\ \A p \in Callers : (pc[p] # "idle") ~> (pc[p] = "idle")

\* A sleeping caller was cancelled, and a call of another caller that
\* entered after it, before its sleep would have ended, has returned.
C30_Witness ==
    \E i \in CancelledCalls :
        \E j \in (i + 1)..Len(log) :
            /\ log[j].ret >= 0
            /\ log[j].caller # log[i].caller
            /\ log[j].enter < log[i].enter + log[i].wait

====
